---- MODULE Spec2Model ----
(***************************************************************************)
(* Model of gitlab-component-docs-gen (main.go): the template parser       *)
(* (parseTemplate, formatDefault, loadComponentDescription), the           *)
(* configuration resolvers (resolveProjectPath, resolveVersion and their   *)
(* sources), the remote address reduction (parseGitRemoteURL), a run of    *)
(* main in a working directory, and overlapping calls of parseTemplate.    *)
(*                                                                         *)
(* Go strings are modelled as sequences of one-character strings, so that  *)
(* comparison, slicing, trimming and concatenation are computed and not    *)
(* assumed.                                                                *)
(***************************************************************************)
EXTENDS Integers, Sequences, FiniteSets, TLC

VARIABLES
    tplPath,        \* path handed to parseTemplate
    tplFile,        \* content of the file at tplPath
    docsDir,        \* the docs/ directory: at most one <name>.md file
    iterOrder,      \* order in which `range config.Spec.Inputs` yields the keys
    parsePc,        \* "idle" | "done" : position of the parseTemplate caller
    parseResult,    \* (ComponentData, error) returned by parseTemplate
    environ,        \* process environment: PROJECT_PATH and VERSION
    configFile,     \* .gitlab-component-docs-gen.yml
    gitRemote,      \* outcome of `git remote get-url origin`
    gitTag,         \* outcome of `git describe --tags --abbrev=0`
    resolvePc,      \* "idle" | "done" : position of the resolver caller
    resolveCall,    \* last resolver call: function, flag value, result
    remote,         \* argument of parseGitRemoteURL
    remotePc,       \* "idle" | "done"
    remoteResult,   \* string returned by parseGitRemoteURL
    fs,             \* working directory of a run of main: README.md.tmpl,
                    \* templates/*.yml, README.md and whether it can be written
    main,           \* position and local variables of main
    stdout,         \* lines main has printed
    writes,         \* names of the files written so far, in order
    batch,          \* extractions of a batch: per worker, position and locals
    fmtValue,       \* argument of formatDefault
    fmtOrder,       \* per call, the order in which the runtime hands out map keys
    fmtPc,          \* "idle" | "once" | "twice" : calls made on fmtValue
    fmtResult,      \* per call, the string returned by formatDefault
    resolveLog,     \* the resolver calls made so far, each with its result
    ensureLog       \* the ensureTemplate calls made so far, each with its result

parseVars   == <<tplPath, tplFile, docsDir, iterOrder, parsePc, parseResult>>
resolveVars == <<environ, configFile, gitRemote, gitTag, resolvePc, resolveCall>>
remoteVars  == <<remote, remotePc, remoteResult>>
mainVars    == <<fs, main, stdout, writes>>
batchVars   == <<batch>>
fmtVars     == <<fmtValue, fmtOrder, fmtPc, fmtResult>>
logVars     == <<resolveLog, ensureLog>>
vars        == <<parseVars, resolveVars, remoteVars, mainVars, batchVars, fmtVars, logVars>>

----------------------------------------------------------------------------
(* Bounds of the model *)

\* largest number of entries of spec.inputs in a generated document
MaxInputs == 3

----------------------------------------------------------------------------
(* Go strings *)

\* the byte 0x60 (grave accent), which a TLA+ string literal cannot hold
Backtick == "BACKTICK"

\* the characters used by the model, in ascending byte order
AsciiOrder ==
    << "\n", " ", "\"", "$", "&", "+", ",", "-", ".", "/",
       "0", "1", "2", "3", "4", "5", "6", "7", "8", "9",
       ":", "<", "=", ">", "@", "I", "N", "[", "\\", "]", "_", Backtick,
       "a", "b", "c", "d", "e", "f", "g", "h", "i", "j", "k", "l", "m",
       "n", "o", "p", "q", "r", "s", "t", "u", "v", "w", "x", "y", "z",
       "{", "}" >>

\* position of each character in the byte order
CodeOf ==
    [c \in { AsciiOrder[i] : i \in 1..Len(AsciiOrder) } |->
        CHOOSE i \in 1..Len(AsciiOrder) : AsciiOrder[i] = c]

Code(c) == CodeOf[c]

\* Go's `a < b` on strings: bytewise lexicographic order
RECURSIVE StrLess(_, _)
StrLess(a, b) ==
    IF b = <<>> THEN FALSE
    ELSE IF a = <<>> THEN TRUE
    ELSE IF Head(a) # Head(b) THEN Code(Head(a)) < Code(Head(b))
    ELSE StrLess(Tail(a), Tail(b))

HasSuffix(s, x) == Len(s) >= Len(x) /\ SubSeq(s, Len(s) - Len(x) + 1, Len(s)) = x

\* strings.TrimSuffix: removes one occurrence of the suffix, when present
TrimSuffix(s, x) == IF HasSuffix(s, x) THEN SubSeq(s, 1, Len(s) - Len(x)) ELSE s

\* strings.Index: 0-based index of the first occurrence of sub, or -1
Index(s, sub) ==
    LET hits == { i \in 1..(Len(s) - Len(sub) + 1) : SubSeq(s, i, i + Len(sub) - 1) = sub }
    IN  IF hits = {} THEN -1
        ELSE (CHOOSE i \in hits : \A j \in hits : i <= j) - 1

Contains(s, sub) == Index(s, sub) >= 0

\* strings.SplitN(s, sep, 2): the text before and after the first separator
SplitN2(s, sep) ==
    LET i == Index(s, sep)
    IN  IF i < 0 THEN << s >>
        ELSE << SubSeq(s, 1, i), SubSeq(s, i + Len(sep) + 1, Len(s)) >>

IsSpace(c) == c \in {" ", "\n"}

RECURSIVE TrimLeft(_)
TrimLeft(s) == IF s # <<>> /\ IsSpace(Head(s)) THEN TrimLeft(Tail(s)) ELSE s

RECURSIVE TrimRight(_)
TrimRight(s) ==
    IF s # <<>> /\ IsSpace(s[Len(s)]) THEN TrimRight(SubSeq(s, 1, Len(s) - 1)) ELSE s

\* strings.TrimSpace
TrimSpace(s) == TrimRight(TrimLeft(s))

RECURSIVE StripTrailingSlashes(_)
StripTrailingSlashes(p) ==
    IF p # <<>> /\ p[Len(p)] = "/"
    THEN StripTrailingSlashes(SubSeq(p, 1, Len(p) - 1))
    ELSE p

\* filepath.Base: the last element of the path
Base(p) ==
    IF p = <<>> THEN << "." >>
    ELSE LET q == StripTrailingSlashes(p)
             slashes == { i \in 1..Len(q) : q[i] = "/" }
             last == IF slashes = {} THEN 0
                     ELSE CHOOSE i \in slashes : \A j \in slashes : j <= i
         IN  IF q = <<>> THEN << "/" >> ELSE SubSeq(q, last + 1, Len(q))

\* filepath.Ext: the suffix that starts at the final dot of the last element
Ext(p) ==
    LET cut == { i \in 1..Len(p) :
                    /\ p[i] = "."
                    /\ \A j \in i..Len(p) : p[j] # "/"
                    /\ \A j \in (i + 1)..Len(p) : p[j] # "." }
    IN  IF cut = {} THEN <<>>
        ELSE SubSeq(p, CHOOSE i \in cut : TRUE, Len(p))

Swap(s, i, j) == [s EXCEPT ![i] = s[j], ![j] = s[i]]

\* inner loop of sort.Strings on a short slice
RECURSIVE SinkString(_, _)
SinkString(s, j) ==
    IF j > 1 /\ StrLess(s[j], s[j - 1]) THEN SinkString(Swap(s, j, j - 1), j - 1) ELSE s

RECURSIVE SortStringsFrom(_, _)
SortStringsFrom(s, i) == IF i > Len(s) THEN s ELSE SortStringsFrom(SinkString(s, i), i + 1)

\* the slice left in the order it was found
SortStrings_AsFound(s) == s

\* sort.Strings(templates)
SortStrings(s) == SortStringsFrom(s, 2)

Digit(d) == << AsciiOrder[Code("0") + d] >>

RECURSIVE Digits(_)
Digits(n) == IF n < 10 THEN Digit(n) ELSE Digits(n \div 10) \o Digit(n % 10)

\* a conversion that loses the sign
Itoa_Unsigned(n) == IF n < 0 THEN Digits(0 - n) ELSE Digits(n)

\* fmt.Sprintf("%v", n) for an integer
Itoa(n) == IF n < 0 THEN << "-" >> \o Digits(0 - n) ELSE Digits(n)

----------------------------------------------------------------------------
(* YAML values as decoded into interface{} *)

Nil       == [k |-> "nil",  v |-> <<>>]
StrV(s)   == [k |-> "str",  v |-> s]
BoolV(b)  == [k |-> "bool", v |-> b]
IntV(n)   == [k |-> "int",  v |-> n]
ListV(l)  == [k |-> "list", v |-> l]
MapV(m)   == [k |-> "map",  v |-> m]

\* a float64: finite with whole part w and fraction digits f (the last one not
\* zero), or one of the non-finite values .inf, -.inf and .nan
FloatV(w, f) == [k |-> "float", v |-> [finite |-> TRUE, w |-> w, f |-> f, text |-> <<>>]]
NonFinite(t) == [k |-> "float", v |-> [finite |-> FALSE, w |-> 0, f |-> <<>>, text |-> t]]
PosInf       == NonFinite(<< "+", "I", "n", "f" >>)
NegInf       == NonFinite(<< "-", "I", "n", "f" >>)
NaN          == NonFinite(<< "N", "a", "N" >>)

\* a `default:` key as written in the document
NoKey     == [k |-> "nokey", v |-> <<>>]
NullV     == [k |-> "null",  v |-> <<>>]

\* encoding/json string encoding: quotes, backslash escapes, HTML-safe escapes
RECURSIVE JsonEscape(_)
JsonEscape(s) ==
    IF s = <<>> THEN <<>>
    ELSE LET c == Head(s)
             e == CASE c = "\"" -> << "\\", "\"" >>
                    [] c = "\\" -> << "\\", "\\" >>
                    [] c = "\n" -> << "\\", "n" >>
                    [] c = "<"  -> << "\\", "u", "0", "0", "3", "c" >>
                    [] c = ">"  -> << "\\", "u", "0", "0", "3", "e" >>
                    [] c = "&"  -> << "\\", "u", "0", "0", "2", "6" >>
                    [] OTHER    -> << c >>
         IN  e \o JsonEscape(Tail(s))

JsonString(s) == << "\"" >> \o JsonEscape(s) \o << "\"" >>

\* the keys of a map in ascending order
RECURSIVE SortedKeys(_)
SortedKeys(ks) ==
    IF ks = {} THEN <<>>
    ELSE LET m == CHOOSE x \in ks : \A y \in ks \ {x} : StrLess(x, y)
         IN  << m >> \o SortedKeys(ks \ {m})

\* the keys a map may use, and the orders in which the runtime may hand them out
KeyUniverse == { << "a" >>, << "b" >>, << "i", "f" >> }

AscendingKeys == SortedKeys(KeyUniverse)

\* the keys of map m as the runtime hands them out under order o
RangeOrder(m, o) == SelectSeq(o, LAMBDA k : k \in DOMAIN m)

\* an encoder that writes the keys as the runtime hands them out
MapKeys_Unsorted(m, o) == RangeOrder(m, o)

\* encoding/json and fmt collect the keys of a map and sort them
MapKeys(m, o) == SortStrings(RangeOrder(m, o))

\* strconv's shortest decimal form of a float64 of moderate magnitude
FloatText(x) ==
    IF x.finite THEN Itoa(x.w) \o << "." >> \o x.f ELSE x.text

\* json.Marshal returns an UnsupportedValueError for a non-finite float
RECURSIVE JsonOk(_)
JsonOk(x) ==
    CASE x.k = "float" -> x.v.finite
      [] x.k = "list"  -> \A i \in 1..Len(x.v) : JsonOk(x.v[i])
      [] x.k = "map"   -> \A key \in DOMAIN x.v : JsonOk(x.v[key])
      [] OTHER         -> TRUE

RECURSIVE JsonMarshal(_, _)
RECURSIVE JsonList(_, _, _)
RECURSIVE JsonMap(_, _, _, _)

\* the elements of a list from position i on, comma separated
JsonList(l, i, o) ==
    IF i > Len(l) THEN <<>>
    ELSE (IF i > 1 THEN << "," >> ELSE <<>>) \o JsonMarshal(l[i], o) \o JsonList(l, i + 1, o)

\* the members of a map in key order from position i on, comma separated
JsonMap(m, ks, i, o) ==
    IF i > Len(ks) THEN <<>>
    ELSE (IF i > 1 THEN << "," >> ELSE <<>>)
         \o JsonString(ks[i]) \o << ":" >> \o JsonMarshal(m[ks[i]], o)
         \o JsonMap(m, ks, i + 1, o)

\* json.Marshal: compact serialization of a value it supports
JsonMarshal(x, o) ==
    CASE x.k = "nil"   -> << "n", "u", "l", "l" >>
      [] x.k = "str"   -> JsonString(x.v)
      [] x.k = "bool"  -> IF x.v THEN << "t", "r", "u", "e" >> ELSE << "f", "a", "l", "s", "e" >>
      [] x.k = "int"   -> Itoa(x.v)
      [] x.k = "float" -> FloatText(x.v)
      [] x.k = "list"  -> << "[" >> \o JsonList(x.v, 1, o) \o << "]" >>
      [] x.k = "map"   -> << "{" >> \o JsonMap(x.v, MapKeys(x.v, o), 1, o) \o << "}" >>

RECURSIVE Sprintf(_, _)
RECURSIVE SprintList(_, _, _)
RECURSIVE SprintMap(_, _, _, _)

\* the elements of a list from position i on, space separated
SprintList(l, i, o) ==
    IF i > Len(l) THEN <<>>
    ELSE (IF i > 1 THEN << " " >> ELSE <<>>) \o Sprintf(l[i], o) \o SprintList(l, i + 1, o)

\* the members of a map in key order from position i on, space separated
SprintMap(m, ks, i, o) ==
    IF i > Len(ks) THEN <<>>
    ELSE (IF i > 1 THEN << " " >> ELSE <<>>)
         \o ks[i] \o << ":" >> \o Sprintf(m[ks[i]], o)
         \o SprintMap(m, ks, i + 1, o)

\* a generic conversion that gives up on composite values
Sprintf_ScalarsOnly(x, o) ==
    CASE x.k = "nil"   -> << "<", "n", "i", "l", ">" >>
      [] x.k = "str"   -> x.v
      [] x.k = "bool"  -> IF x.v THEN << "t", "r", "u", "e" >> ELSE << "f", "a", "l", "s", "e" >>
      [] x.k = "int"   -> Itoa(x.v)
      [] x.k = "float" -> FloatText(x.v)
      [] OTHER         -> << "%!v(PANIC)" >>

\* fmt.Sprintf("%v", x)
Sprintf(x, o) ==
    CASE x.k = "nil"   -> << "<", "n", "i", "l", ">" >>
      [] x.k = "str"   -> x.v
      [] x.k = "bool"  -> IF x.v THEN << "t", "r", "u", "e" >> ELSE << "f", "a", "l", "s", "e" >>
      [] x.k = "int"   -> Itoa(x.v)
      [] x.k = "float" -> FloatText(x.v)
      [] x.k = "list"  -> << "[" >> \o SprintList(x.v, 1, o) \o << "]" >>
      [] x.k = "map"   -> << "m", "a", "p", "[" >> \o SprintMap(x.v, MapKeys(x.v, o), 1, o) \o << "]" >>

\* a conversion that hands out the serialization without delimiters
formatDefaultIter_NoDelimiters(val, o) ==
    IF val = Nil THEN <<>>
    ELSE CASE val.k = "str"  -> val.v
           [] val.k \in {"list", "map"} ->
                IF JsonOk(val) THEN JsonMarshal(val, o) ELSE Sprintf(val, o)
           [] OTHER -> Sprintf(val, o)

\* formatDefault, with the order o in which the runtime hands out map keys
formatDefaultIter(val, o) ==
    IF val = Nil THEN <<>>
    ELSE CASE val.k = "str"  -> val.v
           [] val.k = "bool" -> Sprintf(val, o)
           [] val.k \in {"list", "map"} ->
                IF JsonOk(val)
                THEN << Backtick >> \o JsonMarshal(val, o) \o << Backtick >>
                ELSE Sprintf(val, o)
           [] OTHER -> Sprintf(val, o)

\* a conversion without the nil guard: nil reaches the generic conversion
formatDefault_NoNilCheck(val) ==
    IF val = Nil THEN Sprintf(val, AscendingKeys) ELSE formatDefaultIter(val, AscendingKeys)

\* formatDefault converts a default value to its string representation; the
\* documents of the parser specifications hold no map of several keys, so one
\* order stands for all
formatDefault(val) == formatDefaultIter(val, AscendingKeys)

----------------------------------------------------------------------------
(* Template documents *)

\* parameter names that a generated document may declare
InputNames == { << "a" >>, << "a", "b" >>, << "b" >>, << "s" >> }

\* one entry of spec.inputs as written: optional description, optional default
RawEntry(hasDesc, desc, def) == [hasDesc |-> hasDesc, desc |-> desc, def |-> def]

RawEntries ==
    { RawEntry(FALSE, <<>>, NoKey),
      RawEntry(TRUE, << "d" >>, NullV),
      RawEntry(FALSE, <<>>, StrV(<<>>)),
      RawEntry(TRUE, << "d" >>, StrV(<< "b" >>)),
      RawEntry(FALSE, <<>>, BoolV(FALSE)),
      RawEntry(TRUE, << "d", "d" >>, IntV(0)),
      RawEntry(FALSE, <<>>, ListV(<< StrV(<< "x" >>) >>)) }

\* the content of a file: missing, not well-formed, or a YAML document
FileMissing   == [kind |-> "missing",   hasSpec |-> FALSE, hasInputs |-> FALSE, inputs |-> <<>>]
FileMalformed == [kind |-> "malformed", hasSpec |-> FALSE, hasInputs |-> FALSE, inputs |-> <<>>]
YamlDoc(hasSpec, hasInputs, inputs) ==
    [kind |-> "yaml", hasSpec |-> hasSpec, hasInputs |-> hasInputs, inputs |-> inputs]

InputMaps ==
    UNION { [S -> RawEntries] :
              S \in { T \in SUBSET InputNames : Cardinality(T) <= MaxInputs } }

TplFiles ==
    { FileMissing, FileMalformed, YamlDoc(FALSE, FALSE, <<>>), YamlDoc(TRUE, FALSE, <<>>) }
    \cup { YamlDoc(TRUE, TRUE, m) : m \in InputMaps }

TplPaths ==
    { << "t", "/", "d", ".", "y", "m", "l" >>,
      << "a", ".", "b", ".", "y", "m", "l" >> }

\* the docs/ directory, holding at most one description file
NoDocs == [present |-> FALSE, name |-> <<>>, content |-> <<>>]
DocsDirs ==
    { NoDocs }
    \cup { [present |-> TRUE, name |-> << "d" >>, content |-> << " ", "h", "i", "\n" >>] }

\* the orders in which a map with key set ks can be iterated
RECURSIVE Orders(_)
Orders(ks) ==
    IF ks = {} THEN { <<>> }
    ELSE UNION { { << x >> \o o : o \in Orders(ks \ {x}) } : x \in ks }

----------------------------------------------------------------------------
(* parseTemplate *)

\* a decoder that rejects a document without spec.inputs
Unmarshal_SpecRequired(file) ==
    IF file.kind # "yaml" \/ ~file.hasSpec \/ ~file.hasInputs
    THEN [ok |-> FALSE, Inputs |-> <<>>]
    ELSE [ok |-> TRUE,
          Inputs |-> [n \in DOMAIN file.inputs |->
                        [Description |-> IF file.inputs[n].hasDesc
                                         THEN file.inputs[n].desc ELSE <<>>,
                         Default |-> IF file.inputs[n].def.k \in {"nokey", "null"}
                                     THEN Nil ELSE file.inputs[n].def]]]

\* a decoder that turns `default: null` into the empty string
Unmarshal_NullAsEmptyString(file) ==
    IF file.kind # "yaml"
    THEN [ok |-> FALSE, Inputs |-> <<>>]
    ELSE [ok |-> TRUE,
          Inputs |-> IF file.hasSpec /\ file.hasInputs
                     THEN [n \in DOMAIN file.inputs |->
                            [Description |-> IF file.inputs[n].hasDesc
                                             THEN file.inputs[n].desc ELSE <<>>,
                             Default |-> CASE file.inputs[n].def.k = "nokey" -> Nil
                                           [] file.inputs[n].def.k = "null" -> StrV(<<>>)
                                           [] OTHER -> file.inputs[n].def]]
                     ELSE <<>>]

\* yaml.Unmarshal into Config: Inputs{Description string; Default interface{}}
Unmarshal(file) ==
    IF file.kind # "yaml"
    THEN [ok |-> FALSE, Inputs |-> <<>>]
    ELSE [ok |-> TRUE,
          Inputs |-> IF file.hasSpec /\ file.hasInputs
                     THEN [n \in DOMAIN file.inputs |->
                            [Description |-> IF file.inputs[n].hasDesc
                                             THEN file.inputs[n].desc ELSE <<>>,
                             Default |-> IF file.inputs[n].def.k \in {"nokey", "null"}
                                         THEN Nil ELSE file.inputs[n].def]]
                     ELSE <<>>]

\* the InputData literal of the earlier revision: empty default means required
NewInputData_EmptyIsRequired(name, input) ==
    [Name        |-> name,
     Description |-> input.Description,
     Required    |-> formatDefault(input.Default) = <<>>,
     Default     |-> formatDefault(input.Default)]

\* the InputData literal built for one entry of config.Spec.Inputs
NewInputData(name, input) ==
    [Name        |-> name,
     Description |-> input.Description,
     Required    |-> input.Default = Nil,
     Default     |-> formatDefault(input.Default)]

\* a loop that stops one entry early
Collect_DropLast(inputs, order) ==
    [i \in 1..(Len(order) - 1) |-> NewInputData(order[i], inputs[order[i]])]

\* for name, input := range config.Spec.Inputs { inputs = append(inputs, ...) }
Collect(inputs, order) ==
    [i \in 1..Len(order) |-> NewInputData(order[i], inputs[order[i]])]

\* a comparison that forgets the name
less_RequiredOnly(x, y) == x.Required /\ ~y.Required

\* the less function handed to sort.Slice: required first, then by name
less(x, y) ==
    IF x.Required # y.Required THEN x.Required ELSE StrLess(x.Name, y.Name)

\* inner loop of the insertion sort: for j := i; j > a && less(j, j-1); j--
RECURSIVE Sink(_, _)
Sink(s, j) ==
    IF j > 1 /\ less(s[j], s[j - 1]) THEN Sink(Swap(s, j, j - 1), j - 1) ELSE s

RECURSIVE SortFrom(_, _)
SortFrom(s, i) == IF i > Len(s) THEN s ELSE SortFrom(Sink(s, i), i + 1)

\* a sort that leaves the slice as the loop built it
SortSlice_Unsorted(s) == s

\* sort.Slice on a slice of fewer than 12 elements: insertion sort
SortSlice(s) == SortFrom(s, 2)

\* a lookup that keeps the surrounding white space of the file
loadComponentDescription_NoTrim(name, docs) ==
    IF docs.present /\ docs.name = name THEN docs.content ELSE <<>>

\* loadComponentDescription reads the optional docs/<name>.md
loadComponentDescription(name, docs) ==
    IF docs.present /\ docs.name = name THEN TrimSpace(docs.content) ELSE <<>>

ZeroComponentData == [Name |-> <<>>, Description |-> <<>>, Inputs |-> <<>>]

NilError == [kind |-> "nil", msg |-> <<>>]

\* the text of the error os.ReadFile returns for a file it cannot open
ReadFileCause(path) ==
    << "o", "p", "e", "n", " " >> \o path \o << ":", " ", "n", "o", " ", "s", "u", "c", "h", " ", "f", "i", "l", "e" >>

\* the text of the error yaml.Unmarshal returns for content it rejects
UnmarshalCause == << "y", "a", "m", "l", ":", " ", "s", "y", "n", "t", "a", "x", " ", "e", "r", "r", "o", "r" >>

\* fmt.Errorf("error reading YAML file %s: %w", path, err)
ReadErrorf(path, cause) ==
    << "e", "r", "r", "o", "r", " ", "r", "e", "a", "d", "i", "n", "g", " ", "Y", "A", "M", "L", " ", "f", "i", "l", "e", " " >>
    \o path \o << ":", " " >> \o cause

\* fmt.Errorf("error parsing YAML file %s: %w", path, err)
ParseErrorf(path, cause) ==
    << "e", "r", "r", "o", "r", " ", "p", "a", "r", "s", "i", "n", "g", " ", "Y", "A", "M", "L", " ", "f", "i", "l", "e", " " >>
    \o path \o << ":", " " >> \o cause

\* a name cut at the first dot of the base name
ComponentName_FirstDot(path) ==
    LET base == Base(path)
        dots == { i \in 1..Len(base) : base[i] = "." }
    IN  IF dots = {} THEN base
        ELSE SubSeq(base, 1, (CHOOSE i \in dots : \A j \in dots : i <= j) - 1)

\* the component name: base name without its extension
ComponentName(path) ==
    LET base == Base(path)
    IN  SubSeq(base, 1, Len(base) - Len(Ext(base)))

\* a parser that hands back the name it could derive when decoding fails
parseTemplate_PartialOnError(path, file, docs, order) ==
    IF file.kind = "missing"
    THEN [data |-> ZeroComponentData,
          err  |-> [kind |-> "read", msg |-> ReadErrorf(path, ReadFileCause(path))]]
    ELSE LET config == Unmarshal(file)
             name == ComponentName(path)
         IN  IF ~config.ok
             THEN [data |-> [Name |-> name, Description |-> <<>>, Inputs |-> <<>>],
                   err  |-> [kind |-> "parse", msg |-> ParseErrorf(path, UnmarshalCause)]]
             ELSE [data |-> [Name        |-> name,
                             Description |-> loadComponentDescription(name, docs),
                             Inputs      |-> SortSlice(Collect(config.Inputs, order))],
                   err  |-> NilError]

\* parseTemplate(path), with the file system and the map iteration order explicit
parseTemplate(path, file, docs, order) ==
    IF file.kind = "missing"
    THEN [data |-> ZeroComponentData,
          err  |-> [kind |-> "read", msg |-> ReadErrorf(path, ReadFileCause(path))]]
    ELSE LET config == Unmarshal(file)
         IN  IF ~config.ok
             THEN [data |-> ZeroComponentData,
                   err  |-> [kind |-> "parse", msg |-> ParseErrorf(path, UnmarshalCause)]]
             ELSE LET name == ComponentName(path)
                  IN  [data |-> [Name        |-> name,
                                 Description |-> loadComponentDescription(name, docs),
                                 Inputs      |-> SortSlice(Collect(config.Inputs, order))],
                       err  |-> NilError]

\* the keys that `range` yields for the file's decoded inputs map
RangeKeys(file) == IF Unmarshal(file).ok THEN DOMAIN Unmarshal(file).Inputs ELSE {}

NoResult == [data |-> ZeroComponentData, err |-> [kind |-> "none", msg |-> <<>>]]

----------------------------------------------------------------------------
(* Configuration resolver *)

DotGit == << ".", "g", "i", "t" >>

\* the two rules tried in the other order
parseGitRemoteURL_UrlRuleFirst(addr) ==
    LET sshParts == SplitN2(addr, << ":" >>)
        urlParts == SplitN2(addr, << "/", "/" >>)
    IN  IF /\ Contains(addr, << "/", "/" >>)
           /\ Len(urlParts) = 2
           /\ Index(urlParts[2], << "/" >>) >= 0
        THEN TrimSuffix(SubSeq(urlParts[2], Index(urlParts[2], << "/" >>) + 2,
                               Len(urlParts[2])), DotGit)
        ELSE IF /\ Contains(addr, << ":" >>) /\ Contains(addr, << "@" >>)
                /\ Len(sshParts) = 2
        THEN TrimSuffix(sshParts[2], DotGit)
        ELSE <<>>

\* parseGitRemoteURL: the secure-shell rule, then the URL rule, then ""
parseGitRemoteURL(addr) ==
    LET sshParts == SplitN2(addr, << ":" >>)
        urlParts == SplitN2(addr, << "/", "/" >>)
    IN  IF /\ Contains(addr, << ":" >>) /\ Contains(addr, << "@" >>)
           /\ Len(sshParts) = 2
        THEN TrimSuffix(sshParts[2], DotGit)
        ELSE IF /\ Contains(addr, << "/", "/" >>)
                /\ Len(urlParts) = 2
                /\ Index(urlParts[2], << "/" >>) >= 0
        THEN TrimSuffix(SubSeq(urlParts[2], Index(urlParts[2], << "/" >>) + 2,
                               Len(urlParts[2])), DotGit)
        ELSE <<>>

\* a reader that keeps what was decoded before the decoder failed
readConfigProjectPath_IgnoresError(cfg) ==
    IF cfg.kind = "missing" THEN <<>> ELSE cfg.project_path

\* readConfigProjectPath: "" when the file is missing or does not decode
readConfigProjectPath(cfg) ==
    IF cfg.kind = "missing" THEN <<>>
    ELSE IF cfg.kind = "unparsable" THEN <<>>
    ELSE cfg.project_path

\* a reader that falls back on the other field of the file
readConfigVersion_AnyField(cfg) ==
    IF cfg.kind # "yaml" THEN <<>>
    ELSE IF cfg.version # <<>> THEN cfg.version ELSE cfg.project_path

\* readConfigVersion: "" when the file is missing or does not decode
readConfigVersion(cfg) ==
    IF cfg.kind = "missing" THEN <<>>
    ELSE IF cfg.kind = "unparsable" THEN <<>>
    ELSE cfg.version

\* detectGitProjectPath: `git remote get-url origin`, trimmed and reduced
detectGitProjectPath(cmd) ==
    IF ~cmd.ok THEN <<>> ELSE parseGitRemoteURL(TrimSpace(cmd.out))

\* a detection that drops the leading "v" of a tag
detectGitVersion_StripV(cmd) ==
    IF ~cmd.ok THEN <<>>
    ELSE LET t == TrimSpace(cmd.out)
         IN  IF t # <<>> /\ t[1] = "v" THEN Tail(t) ELSE t

\* detectGitVersion: `git describe --tags --abbrev=0`, trimmed
detectGitVersion(cmd) ==
    IF ~cmd.ok THEN <<>> ELSE TrimSpace(cmd.out)

PlaceholderProjectPath ==
    << "<", "y", "o", "u", "r", "-", "p", "r", "o", "j", "e", "c", "t", "-",
       "p", "a", "t", "h", ">" >>

PlaceholderVersion == << "<", "v", "e", "r", "s", "i", "o", "n", ">" >>

\* a resolver that returns whatever git detection gave, without a fallback
resolveProjectPath_NoFallback(flagValue, env, cfg, cmd) ==
    IF flagValue # <<>> THEN flagValue
    ELSE IF env.PROJECT_PATH # <<>> THEN env.PROJECT_PATH
    ELSE IF readConfigProjectPath(cfg) # <<>> THEN readConfigProjectPath(cfg)
    ELSE detectGitProjectPath(cmd)

\* resolveProjectPath: flag, PROJECT_PATH, config file, git remote, placeholder
resolveProjectPath(flagValue, env, cfg, cmd) ==
    IF flagValue # <<>> THEN flagValue
    ELSE IF env.PROJECT_PATH # <<>> THEN env.PROJECT_PATH
    ELSE IF readConfigProjectPath(cfg) # <<>> THEN readConfigProjectPath(cfg)
    ELSE IF detectGitProjectPath(cmd) # <<>> THEN detectGitProjectPath(cmd)
    ELSE PlaceholderProjectPath

\* a resolver that consults the config file before the environment
resolveVersion_ConfigBeforeEnv(flagValue, env, cfg, cmd) ==
    IF flagValue # <<>> THEN flagValue
    ELSE IF readConfigVersion(cfg) # <<>> THEN readConfigVersion(cfg)
    ELSE IF env.VERSION # <<>> THEN env.VERSION
    ELSE IF detectGitVersion(cmd) # <<>> THEN detectGitVersion(cmd)
    ELSE PlaceholderVersion

\* resolveVersion: flag, VERSION, config file, git tag, placeholder
resolveVersion(flagValue, env, cfg, cmd) ==
    IF flagValue # <<>> THEN flagValue
    ELSE IF env.VERSION # <<>> THEN env.VERSION
    ELSE IF readConfigVersion(cfg) # <<>> THEN readConfigVersion(cfg)
    ELSE IF detectGitVersion(cmd) # <<>> THEN detectGitVersion(cmd)
    ELSE PlaceholderVersion

\* a resolver that gathers every source before it looks at any
resolveVersionReads_Eager(flagValue, env, cfg, cmd) ==
    << "os.Getenv", "os.ReadFile", "exec.Command" >>

\* the calls resolveVersion makes to reach its sources, in order
resolveVersionReads(flagValue, env, cfg, cmd) ==
    IF flagValue # <<>> THEN <<>>
    ELSE IF env.VERSION # <<>> THEN << "os.Getenv" >>
    ELSE IF readConfigVersion(cfg) # <<>> THEN << "os.Getenv", "os.ReadFile" >>
    ELSE << "os.Getenv", "os.ReadFile", "exec.Command" >>

\* the calls resolveProjectPath makes to reach its sources, in order
resolveProjectPathReads(flagValue, env, cfg, cmd) ==
    IF flagValue # <<>> THEN <<>>
    ELSE IF env.PROJECT_PATH # <<>> THEN << "os.Getenv" >>
    ELSE IF readConfigProjectPath(cfg) # <<>> THEN << "os.Getenv", "os.ReadFile" >>
    ELSE << "os.Getenv", "os.ReadFile", "exec.Command" >>

----------------------------------------------------------------------------
(* The sources of the resolver *)

FlagValues == { <<>>, << "f" >> }

EnvValues == { <<>>, << "e" >> }

Environs == [PROJECT_PATH : EnvValues, VERSION : EnvValues]

ConfigFieldValues == { <<>>, << "c" >> }

\* .gitlab-component-docs-gen.yml: missing, decoded, or failing to decode
\* after the decoder has filled some fields
ConfigMissing == [kind |-> "missing", project_path |-> <<>>, version |-> <<>>]
ConfigFiles ==
    { ConfigMissing }
    \cup [kind : {"yaml", "unparsable"},
          project_path : ConfigFieldValues, version : ConfigFieldValues]

\* outcome of a git command: exit status and what it wrote to stdout
Cmd(ok, out) == [ok |-> ok, out |-> out]
CmdFailed == Cmd(FALSE, <<>>)

GitRemotes ==
    { CmdFailed,
      Cmd(FALSE, << "x" >>),
      Cmd(TRUE, <<>>),
      Cmd(TRUE, << "g", "@", "h", ":", "g", "/", "p", ".", "g", "i", "t", "\n" >>),
      Cmd(TRUE, << "h", "t", "t", "p", "s", ":", "/", "/", "h", "/", "g", "/", "p", "\n" >>),
      Cmd(TRUE, << "g", "/", "p", "\n" >>) }

GitTags ==
    { CmdFailed,
      Cmd(FALSE, << "x" >>),
      Cmd(TRUE, << "\n" >>),
      Cmd(TRUE, << "v", "1", ".", "2", "\n" >>),
      Cmd(TRUE, << "v", "1", ".", "2", ".", "3", "\n" >>) }

EmptyEnviron == [PROJECT_PATH |-> <<>>, VERSION |-> <<>>]
NoCall       == [fn |-> "none", flag |-> <<>>, result |-> <<>>, reads |-> <<>>]

ResolveAtRest ==
    /\ environ = EmptyEnviron
    /\ configFile = ConfigMissing
    /\ gitRemote = CmdFailed
    /\ gitTag = CmdFailed
    /\ resolvePc = "idle"
    /\ resolveCall = NoCall

----------------------------------------------------------------------------
(* Remote addresses by their parts *)

Users == { << "g" >> }

Hosts == { << "h" >>, << "h", ".", "c" >> }

RepoPaths ==
    { << "p" >>,
      << "g", "/", "p" >>,
      << "g", "/", "s", "/", "p" >>,
      << "g", "/", "p", ".", "g", "i", "t" >>,
      << "g", "/", "s", "/", "p", ".", "g", "i", "t" >>,
      << "p", ".", "g", "i", "t", ".", "g", "i", "t" >>,
      << "g", ".", "g", "i", "t", "/", "p" >> }

Schemes == { << "h", "t", "t", "p", "s" >>, << "s", "s", "h" >> }

\* user@host:path
SshRemotes ==
    [form : {"ssh"}, scheme : { <<>> }, user : Users, host : Hosts, port : { <<>> },
     path : RepoPaths]

\* scheme://host/path, the host optionally preceded by user@ and followed by :port
UrlRemotes ==
    [form : {"url"}, scheme : Schemes, user : { <<>> } \cup Users, host : Hosts,
     port : { <<>>, << "8" >> }, path : RepoPaths]

\* addresses of neither form: empty, bare paths, host:path without a user,
\* user@host without a path, a local path written with a doubled slash
OtherRemotes ==
    [form : {"other"}, scheme : { <<>> }, user : { <<>> }, host : { <<>> }, port : { <<>> },
     path : { <<>>,
              << "g", "/", "p" >>,
              << "h", "/", "g", "/", "p", ".", "g", "i", "t" >>,
              << "h", ":", "g", "/", "p" >>,
              << "g", "@", "h" >>,
              << "/", "s", "/", "/", "g", "/", "p", ".", "g", "i", "t" >> }]

Remotes == SshRemotes \cup UrlRemotes \cup OtherRemotes

NoRemote == [form |-> "other", scheme |-> <<>>, user |-> <<>>, host |-> <<>>,
             port |-> <<>>, path |-> <<>>]

\* the text of an address
RemoteText(r) ==
    CASE r.form = "ssh" -> r.user \o << "@" >> \o r.host \o << ":" >> \o r.path
      [] r.form = "url" ->
            r.scheme \o << ":", "/", "/" >>
            \o (IF r.user = <<>> THEN <<>> ELSE r.user \o << "@" >>)
            \o r.host
            \o (IF r.port = <<>> THEN <<>> ELSE << ":" >> \o r.port)
            \o << "/" >> \o r.path
      [] OTHER -> r.path

RemoteAtRest ==
    /\ remote = NoRemote
    /\ remotePc = "idle"
    /\ remoteResult = <<>>

ParseAtRest ==
    /\ tplPath = <<>>
    /\ tplFile = FileMissing
    /\ docsDir = NoDocs
    /\ iterOrder = <<>>
    /\ parsePc = "idle"
    /\ parseResult = NoResult

\* no run of main: an empty working directory, nothing printed or written
NoFs == [tmpl |-> "absent", templates |-> <<>>, readme |-> "absent", writable |-> TRUE]

MainOff ==
    [pc |-> "off", projectPath |-> <<>>, version |-> <<>>, globbed |-> <<>>,
     templates |-> <<>>, parsed |-> <<>>, components |-> <<>>,
     data |-> [ProjectPath |-> <<>>, Version |-> <<>>], doc |-> <<>>]

MainAtRest ==
    /\ fs = NoFs
    /\ main = MainOff
    /\ stdout = <<>>
    /\ writes = <<>>

BatchAtRest == batch = <<>>

LogAtRest == resolveLog = <<>> /\ ensureLog = <<>>

FormatAtRest ==
    /\ fmtValue = Nil
    /\ fmtOrder = <<>>
    /\ fmtPc = "idle"
    /\ fmtResult = <<>>

----------------------------------------------------------------------------
(* Specification of the parser: any document, any iteration order *)

ParseInit ==
    /\ tplPath \in TplPaths
    /\ tplFile \in TplFiles
    /\ docsDir \in DocsDirs
    /\ iterOrder = <<>>
    /\ parsePc = "idle"
    /\ parseResult = NoResult
    /\ ResolveAtRest
    /\ RemoteAtRest
    /\ MainAtRest
    /\ BatchAtRest
    /\ FormatAtRest
    /\ LogAtRest

\* a call of parseTemplate(tplPath); the runtime picks the map iteration order
ParseTemplate ==
    /\ parsePc = "idle"
    /\ \E order \in Orders(RangeKeys(tplFile)) :
          /\ iterOrder' = order
          /\ parseResult' = parseTemplate(tplPath, tplFile, docsDir, order)
    /\ parsePc' = "done"
    /\ UNCHANGED <<tplPath, tplFile, docsDir, resolveVars, remoteVars, mainVars, batchVars, fmtVars, logVars>>

\* the caller drops the record and is ready to call again
ParseReturn ==
    /\ parsePc = "done"
    /\ parsePc' = "idle"
    /\ iterOrder' = <<>>
    /\ parseResult' = NoResult
    /\ UNCHANGED <<tplPath, tplFile, docsDir, resolveVars, remoteVars, mainVars, batchVars, fmtVars, logVars>>

ParseNext == ParseTemplate \/ ParseReturn

SpecParse == ParseInit /\ [][ParseNext]_vars

----------------------------------------------------------------------------
(* Specification of the resolver: any sources, any flag value *)

ResolveInit ==
    /\ environ \in Environs
    /\ configFile \in ConfigFiles
    /\ gitRemote \in GitRemotes
    /\ gitTag \in GitTags
    /\ resolvePc = "idle"
    /\ resolveCall = NoCall
    /\ ParseAtRest
    /\ RemoteAtRest
    /\ MainAtRest
    /\ BatchAtRest
    /\ FormatAtRest
    /\ LogAtRest

\* os.Setenv / os.Unsetenv of PROJECT_PATH or VERSION between two calls
Setenv ==
    /\ resolvePc = "idle"
    /\ \E name \in {"PROJECT_PATH", "VERSION"}, value \in EnvValues :
          /\ environ[name] # value
          /\ environ' = [environ EXCEPT ![name] = value]
    /\ UNCHANGED <<configFile, gitRemote, gitTag, resolvePc, resolveCall, parseVars, remoteVars,
                 mainVars, batchVars, fmtVars, logVars>>

\* the config file is written, rewritten or removed between two calls
WriteConfigAmong(files) ==
    /\ resolvePc = "idle"
    /\ \E cfg \in files :
          /\ cfg # configFile
          /\ configFile' = cfg
    /\ UNCHANGED <<environ, gitRemote, gitTag, resolvePc, resolveCall, parseVars, remoteVars,
                 mainVars, batchVars, fmtVars, logVars>>

WriteConfigFile == WriteConfigAmong(ConfigFiles)

\* a call of resolveProjectPath(flagValue)
ResolveProjectPath ==
    /\ resolvePc = "idle"
    /\ \E flagValue \in FlagValues :
          resolveCall' = [fn |-> "resolveProjectPath", flag |-> flagValue,
                          result |-> resolveProjectPath(flagValue, environ, configFile, gitRemote),
                          reads  |-> resolveProjectPathReads(flagValue, environ, configFile,
                                                             gitRemote)]
    /\ resolvePc' = "done"
    /\ UNCHANGED <<environ, configFile, gitRemote, gitTag, parseVars, remoteVars,
                 mainVars, batchVars, fmtVars, logVars>>

\* a call of resolveVersion(flagValue)
ResolveVersion ==
    /\ resolvePc = "idle"
    /\ \E flagValue \in FlagValues :
          resolveCall' = [fn |-> "resolveVersion", flag |-> flagValue,
                          result |-> resolveVersion(flagValue, environ, configFile, gitTag),
                          reads  |-> resolveVersionReads(flagValue, environ, configFile, gitTag)]
    /\ resolvePc' = "done"
    /\ UNCHANGED <<environ, configFile, gitRemote, gitTag, parseVars, remoteVars,
                 mainVars, batchVars, fmtVars, logVars>>

\* the caller has used the value and is ready to call again
ResolveReturn ==
    /\ resolvePc = "done"
    /\ resolvePc' = "idle"
    /\ resolveCall' = NoCall
    /\ UNCHANGED <<environ, configFile, gitRemote, gitTag, parseVars, remoteVars,
                 mainVars, batchVars, fmtVars, logVars>>

ResolveNext ==
    Setenv \/ WriteConfigFile \/ ResolveProjectPath \/ ResolveVersion \/ ResolveReturn

SpecResolve == ResolveInit /\ [][ResolveNext]_vars

----------------------------------------------------------------------------
(* Specification of the address reduction: any address of the three shapes *)

RemoteInit ==
    /\ remote \in Remotes
    /\ remotePc = "idle"
    /\ remoteResult = <<>>
    /\ ParseAtRest
    /\ ResolveAtRest
    /\ MainAtRest
    /\ BatchAtRest
    /\ FormatAtRest
    /\ LogAtRest

\* a call of parseGitRemoteURL on the text of the address
ParseGitRemoteURL ==
    /\ remotePc = "idle"
    /\ remoteResult' = parseGitRemoteURL(RemoteText(remote))
    /\ remotePc' = "done"
    /\ UNCHANGED <<remote, parseVars, resolveVars, mainVars, batchVars, fmtVars, logVars>>

\* the caller takes another address
NextRemote ==
    /\ remotePc = "done"
    /\ \E r \in Remotes : remote' = r
    /\ remotePc' = "idle"
    /\ remoteResult' = <<>>
    /\ UNCHANGED <<parseVars, resolveVars, mainVars, batchVars, fmtVars, logVars>>

RemoteNext == ParseGitRemoteURL \/ NextRemote

SpecRemote == RemoteInit /\ [][RemoteNext]_vars

----------------------------------------------------------------------------
(* Properties of parseTemplate *)

ParseOk == parsePc = "done" /\ parseResult.err = NilError

Params == parseResult.data.Inputs

\* the entry of the document that a returned parameter came from
RawOf(param) == tplFile.inputs[param.Name]

\* the document gives the entry no default: no `default` key, or a null one
DefaultAbsent(entry) == entry.def.k \in {"nokey", "null"}

\* C1: for every parameter returned by parseTemplate, Required is true exactly
\* when the default of its entry is absent; an explicit empty string, an
\* explicit false and an explicit 0 all give Required = FALSE.
C1_RequiredIffDefaultAbsent ==
    ParseOk =>
        \A i \in DOMAIN Params :
            /\ Params[i].Required <=> DefaultAbsent(RawOf(Params[i]))
            /\ RawOf(Params[i]).def \in { StrV(<<>>), BoolV(FALSE), IntV(0) }
                  => ~Params[i].Required

C1_Witness ==
    /\ ParseOk
    /\ \E i \in DOMAIN Params : RawOf(Params[i]).def = StrV(<<>>) /\ ~Params[i].Required
    /\ \E i \in DOMAIN Params : RawOf(Params[i]).def = IntV(0) /\ ~Params[i].Required
    /\ \E i \in DOMAIN Params : RawOf(Params[i]).def = NoKey /\ Params[i].Required

\* C2 as stated: for every parameter returned by parseTemplate, the display
\* string Default is empty if and only if Required is true.
C2_DefaultEmptyIffRequired ==
    ParseOk =>
        \A i \in DOMAIN Params : (Params[i].Default = <<>>) <=> Params[i].Required

\* C2 amended: Default is empty if and only if the parameter is required or
\* its default is the explicit empty string; a required parameter always has
\* an empty Default.
C2_DefaultEmptyIffRequiredOrEmptyString ==
    ParseOk =>
        \A i \in DOMAIN Params :
            /\ (Params[i].Default = <<>>)
                  <=> (Params[i].Required \/ RawOf(Params[i]).def = StrV(<<>>))
            /\ Params[i].Required => Params[i].Default = <<>>

C2_Witness ==
    /\ ParseOk
    /\ \E i \in DOMAIN Params :
          RawOf(Params[i]).def = StrV(<<>>) /\ ~Params[i].Required /\ Params[i].Default = <<>>
    /\ \E i \in DOMAIN Params : Params[i].Required /\ Params[i].Default = <<>>
    /\ \E i \in DOMAIN Params : ~Params[i].Required /\ Params[i].Default # <<>>

\* C3: the returned parameters are sorted: every required parameter precedes
\* every optional one, and inside each group the names ascend strictly; the
\* document {a: no default, s: default "b"} gives [a required "", s optional "b"].
C3_SortedRequiredFirstThenName ==
    ParseOk =>
        /\ \A i, j \in DOMAIN Params :
              i < j =>
                 /\ Params[i].Required \/ ~Params[j].Required
                 /\ (Params[i].Required = Params[j].Required)
                       => StrLess(Params[i].Name, Params[j].Name)
        /\ tplFile.inputs = (<< "a" >> :> RawEntry(FALSE, <<>>, NoKey)
                             @@ << "s" >> :> RawEntry(TRUE, << "d" >>, StrV(<< "b" >>)))
              => Params = << [Name |-> << "a" >>, Description |-> <<>>,
                              Required |-> TRUE, Default |-> <<>>],
                             [Name |-> << "s" >>, Description |-> << "d" >>,
                              Required |-> FALSE, Default |-> << "b" >>] >>

\* three parameters, iterated optional-first and in descending name order
C3_Witness ==
    /\ ParseOk
    /\ Len(Params) = 3
    /\ Params[1].Required /\ Params[2].Required /\ ~Params[3].Required
    /\ iterOrder = << Params[3].Name, Params[2].Name, Params[1].Name >>
    /\ StrLess(Params[3].Name, Params[1].Name)

\* C4: for a fixed inputs mapping the returned sequence does not depend on
\* the iteration order: every run, whatever order the runtime picked, returns
\* the sequence of the run that iterates the keys in ascending order, so any
\* two runs on the same mapping return identical sequences.
C4_IterationOrderIrrelevant ==
    ParseOk =>
        Params = parseTemplate(tplPath, tplFile, docsDir,
                               SortedKeys(RangeKeys(tplFile))).data.Inputs

\* a run whose iteration order was not the order of the result
C4_Witness ==
    /\ ParseOk
    /\ Len(Params) = 3
    /\ \A i \in 1..3 : iterOrder[i] # Params[i].Name
    /\ iterOrder # SortedKeys(RangeKeys(tplFile))

\* C5: the result has exactly one parameter per key of spec.inputs (same
\* length, distinct names, same name set), and each Description is the
\* description of its entry, the empty string when the entry has none.
C5_OneParameterPerEntry ==
    ParseOk /\ tplFile.hasSpec /\ tplFile.hasInputs =>
        /\ Len(Params) = Cardinality(DOMAIN tplFile.inputs)
        /\ \A i, j \in DOMAIN Params : Params[i].Name = Params[j].Name => i = j
        /\ { Params[i].Name : i \in DOMAIN Params } = DOMAIN tplFile.inputs
        /\ \A i \in DOMAIN Params :
              Params[i].Description =
                 IF RawOf(Params[i]).hasDesc THEN RawOf(Params[i]).desc ELSE <<>>

C5_Witness ==
    /\ ParseOk
    /\ Len(Params) = 3
    /\ \E i \in DOMAIN Params : Params[i].Description = << "d" >>
    /\ \E i \in DOMAIN Params : ~RawOf(Params[i]).hasDesc /\ Params[i].Description = <<>>

\* the document declares no parameter: no spec, no inputs, or an empty mapping
NoParameters(file) ==
    file.kind = "yaml" /\ (~file.hasSpec \/ ~file.hasInputs \/ DOMAIN file.inputs = {})

\* C6: a well-formed document without spec block, without inputs block or
\* with an empty inputs mapping gives a nil error and a record that carries
\* the name derived from the file and no parameter.
C6_NoInputsIsNotAnError ==
    parsePc = "done" /\ NoParameters(tplFile) =>
        /\ parseResult.err = NilError
        /\ Len(parseResult.data.Inputs) = 0
        /\ tplPath = << "t", "/", "d", ".", "y", "m", "l" >>
              => parseResult.data.Name = << "d" >>
        /\ tplPath = << "a", ".", "b", ".", "y", "m", "l" >>
              => parseResult.data.Name = << "a", ".", "b" >>

C6_Witness ==
    /\ parsePc = "done"
    /\ tplFile = YamlDoc(FALSE, FALSE, <<>>)
    /\ parseResult.err = NilError
    /\ parseResult.data.Name = << "d" >>

\* C12: parseTemplate is all-or-nothing. When the file cannot be read or its
\* content is rejected by the decoder, the error is not nil, its message holds
\* the path and the underlying cause, and the record is the zero value (no
\* name, no description, no parameter); otherwise the error is nil and the
\* record is complete: the name, the description of docs/<name>.md when that
\* file is there, and one parameter per entry.
C12_AllOrNothing ==
    parsePc = "done" =>
        IF tplFile.kind \in {"missing", "malformed"}
        THEN /\ parseResult.err.kind # "nil"
             /\ Contains(parseResult.err.msg, tplPath)
             /\ Contains(parseResult.err.msg,
                         IF tplFile.kind = "missing"
                         THEN << "n", "o", " ", "s", "u", "c", "h", " ", "f", "i", "l", "e" >>
                         ELSE << "s", "y", "n", "t", "a", "x", " ", "e", "r", "r", "o", "r" >>)
             /\ parseResult.data = [Name |-> <<>>, Description |-> <<>>, Inputs |-> <<>>]
        ELSE /\ parseResult.err.kind = "nil"
             /\ parseResult.data.Name # <<>>
             /\ (docsDir.present /\ docsDir.name = parseResult.data.Name)
                   => parseResult.data.Description # <<>>
             /\ Len(parseResult.data.Inputs) =
                   IF tplFile.hasSpec /\ tplFile.hasInputs
                   THEN Cardinality(DOMAIN tplFile.inputs) ELSE 0

\* a rejected document next to a docs file that carries its name
C12_Witness ==
    /\ parsePc = "done"
    /\ tplFile.kind = "malformed"
    /\ docsDir.present /\ docsDir.name = ComponentName(tplPath)
    /\ parseResult.err.kind = "parse"
    /\ parseResult.data.Name = <<>>

----------------------------------------------------------------------------
(* Properties of the resolver *)

Resolved == resolvePc = "done"

IsProjectPathCall == resolveCall.fn = "resolveProjectPath"

\* the first non-empty string of a sequence that ends with a non-empty one
RECURSIVE FirstNonEmpty(_)
FirstNonEmpty(values) ==
    IF Len(values) = 1 \/ Head(values) # <<>> THEN Head(values)
    ELSE FirstNonEmpty(Tail(values))

\* what each of the four sources yields for the kind of the last call
EnvSource    == IF IsProjectPathCall THEN environ.PROJECT_PATH ELSE environ.VERSION
ConfigSource == IF IsProjectPathCall THEN readConfigProjectPath(configFile)
                                     ELSE readConfigVersion(configFile)
GitSource    == IF IsProjectPathCall THEN detectGitProjectPath(gitRemote)
                                     ELSE detectGitVersion(gitTag)

\* C7: for each kind the resolver returns the first non-empty value among the
\* explicit argument, the environment variable, the config-file field, the
\* git auto-detected value and the placeholder, in this order; an empty string
\* at a level falls through to the next.
C7_FirstNonEmptyInPrecedenceOrder ==
    Resolved =>
        resolveCall.result =
            FirstNonEmpty(<< resolveCall.flag, EnvSource, ConfigSource, GitSource,
                             IF IsProjectPathCall
                             THEN << "<", "y", "o", "u", "r", "-", "p", "r", "o", "j", "e",
                                     "c", "t", "-", "p", "a", "t", "h", ">" >>
                             ELSE << "<", "v", "e", "r", "s", "i", "o", "n", ">" >> >>)

\* the environment outranks a config file and a tag that both yield a value
C7_Witness ==
    /\ Resolved
    /\ ~IsProjectPathCall
    /\ resolveCall.flag = <<>>
    /\ environ.VERSION = << "e" >>
    /\ configFile.kind = "yaml" /\ configFile.version = << "c" >>
    /\ gitTag.ok /\ TrimSpace(gitTag.out) # <<>>
    /\ resolveCall.result = << "e" >>

\* C8: both resolvers always return a non-empty string; when argument,
\* environment, config file and git all yield nothing they return
\* "<your-project-path>" and "<version>", two different strings.
C8_AlwaysNonEmpty ==
    Resolved =>
        /\ resolveCall.result # <<>>
        /\ (resolveCall.flag = <<>> /\ EnvSource = <<>> /\ ConfigSource = <<>> /\ GitSource = <<>>)
              => resolveCall.result =
                    IF IsProjectPathCall
                    THEN << "<", "y", "o", "u", "r", "-", "p", "r", "o", "j", "e",
                            "c", "t", "-", "p", "a", "t", "h", ">" >>
                    ELSE << "<", "v", "e", "r", "s", "i", "o", "n", ">" >>
        /\ PlaceholderProjectPath # PlaceholderVersion

\* git ran, but its remote address reduces to nothing: the placeholder is returned
C8_Witness ==
    /\ Resolved
    /\ IsProjectPathCall
    /\ resolveCall.flag = <<>>
    /\ environ.PROJECT_PATH = <<>>
    /\ configFile.kind = "yaml" /\ configFile.project_path = <<>>
    /\ gitRemote.ok /\ gitRemote.out # <<>>
    /\ resolveCall.result = PlaceholderProjectPath

ConfigYieldsNothing == [kind |-> "yaml", project_path |-> <<>>, version |-> <<>>]

GitYieldsNothing == Cmd(TRUE, <<>>)

\* C9: a failing source is no error and counts as the empty value: with a
\* missing or undecodable config file the call returns what it returns with a
\* config file that sets no field, with a failing git command it returns what
\* it returns when git prints nothing, and in each case a value is returned.
C9_SourceFailureIsEmptyValue ==
    Resolved =>
        /\ resolveCall.result # <<>>
        /\ configFile.kind \in {"missing", "unparsable"} =>
              resolveCall.result =
                 IF IsProjectPathCall
                 THEN resolveProjectPath(resolveCall.flag, environ, ConfigYieldsNothing, gitRemote)
                 ELSE resolveVersion(resolveCall.flag, environ, ConfigYieldsNothing, gitTag)
        /\ (IsProjectPathCall /\ ~gitRemote.ok) =>
              resolveCall.result =
                 resolveProjectPath(resolveCall.flag, environ, configFile, GitYieldsNothing)
        /\ (~IsProjectPathCall /\ ~gitTag.ok) =>
              resolveCall.result =
                 resolveVersion(resolveCall.flag, environ, configFile, GitYieldsNothing)

\* an undecodable config file with a half-decoded field, then a failing git
C9_Witness ==
    /\ Resolved
    /\ IsProjectPathCall
    /\ resolveCall.flag = <<>>
    /\ environ.PROJECT_PATH = <<>>
    /\ configFile.kind = "unparsable" /\ configFile.project_path # <<>>
    /\ ~gitRemote.ok /\ gitRemote.out # <<>>
    /\ resolveCall.result = PlaceholderProjectPath

----------------------------------------------------------------------------
(* Properties of the address reduction *)

\* C10 as stated: for every address user@host:path and every address
\* scheme://host/path the result is exactly path with one trailing ".git"
\* removed, so it holds no scheme, user or host part.
C10_PathOfSshAndUrlRemotes ==
    (remotePc = "done" /\ remote.form \in {"ssh", "url"}) =>
        remoteResult = TrimSuffix(remote.path, DotGit)

\* C11 as stated: an address of neither form, the empty one included, is
\* reduced to the empty string, and resolveProjectPath, reaching the git
\* source with such an address, returns the placeholder.
C11_UnrecognizedRemoteIsEmpty ==
    (remotePc = "done" /\ remote.form = "other") =>
        /\ remoteResult = <<>>
        /\ resolveProjectPath(<<>>, EmptyEnviron, ConfigMissing,
                              Cmd(TRUE, RemoteText(remote) \o << "\n" >>))
              = PlaceholderProjectPath

----------------------------------------------------------------------------
(* main: one run of the generator in a working directory *)

\* templates/*.yml files a working directory may hold
MainPaths ==
    { << "t", "/", "a", ".", "y", "m", "l" >>,
      << "t", "/", "b", ".", "y", "m", "l" >>,
      << "t", "/", "d", ".", "y", "m", "l" >> }

\* what such a file may hold: unreadable, rejected by the decoder, or a document
MainFiles ==
    { FileMissing,
      FileMalformed,
      YamlDoc(TRUE, TRUE, << "a" >> :> RawEntry(TRUE, << "d" >>, StrV(<< "b" >>))) }

TemplateDirs == UNION { [S -> MainFiles] : S \in SUBSET MainPaths }

\* README.md.tmpl: absent, not to be examined, or present with a content that
\* parses and executes ("custom", "default"), does not parse, or does not execute
TmplStates == { "absent", "staterr", "custom", "badsyntax", "badexec" }

WorkDirs ==
    [tmpl : TmplStates, templates : TemplateDirs, readme : { "absent", "old" },
     writable : BOOLEAN]

ReadmeTmpl == << "R", "E", "A", "D", "M", "E", ".", "m", "d", ".", "t", "m", "p", "l" >>

\* the operating system's reason for refusing a stat, a creation or a write
OsCause(op, path) == op \o path \o << ":", " ", "p", "e", "r", "m", "i", "s", "s", "i", "o", "n", " ", "d", "e", "n", "i", "e", "d" >>

\* a creation that leaves the new file empty
ensureTemplate_WritesNothing(path, tmpl, defaultContent, writable) ==
    IF tmpl = "absent" /\ writable
    THEN [created |-> TRUE, tmpl |-> "empty", err |-> NilError]
    ELSE [created |-> FALSE, tmpl |-> tmpl, err |-> NilError]

\* a call that writes the default content whether or not the file exists
ensureTemplate_Overwrites(path, tmpl, defaultContent, writable) ==
    IF writable /\ tmpl # "staterr"
    THEN [created |-> tmpl = "absent", tmpl |-> defaultContent, err |-> NilError]
    ELSE [created |-> FALSE, tmpl |-> tmpl, err |-> NilError]

\* ensureTemplate(path, defaultContent) on the state of the file at path
ensureTemplate(path, tmpl, defaultContent, writable) ==
    IF tmpl = "staterr"
    THEN [created |-> FALSE, tmpl |-> tmpl,
          err |-> [kind |-> "checking",
                   msg |-> << "e", "r", "r", "o", "r", " ", "c", "h", "e", "c", "k", "i", "n", "g", " " >> \o path \o << ":", " " >> \o OsCause(<< "s", "t", "a", "t", " " >>, path)]]
    ELSE IF tmpl = "absent"
    THEN IF writable
         THEN [created |-> TRUE, tmpl |-> defaultContent, err |-> NilError]
         ELSE [created |-> FALSE, tmpl |-> tmpl,
               err |-> [kind |-> "creating",
                        msg |-> << "e", "r", "r", "o", "r", " ", "c", "r", "e", "a", "t", "i", "n", "g", " ", "d", "e", "f", "a", "u", "l", "t", " " >> \o path \o << ":", " " >> \o OsCause(<< "o", "p", "e", "n", " " >>, path)]]
    ELSE [created |-> FALSE, tmpl |-> tmpl, err |-> NilError]

MsgCreated     == << "C", "r", "e", "a", "t", "e", "d", " ", "d", "e", "f", "a", "u", "l", "t", " ", "R", "E", "A", "D", "M", "E", ".", "m", "d", ".", "t", "m", "p", "l" >>
MsgNoTemplates == << "N", "o", " ", "t", "e", "m", "p", "l", "a", "t", "e", " ", "f", "i", "l", "e", "s", " ", "f", "o", "u", "n", "d", " ", "i", "n", " ", "t", "e", "m", "p", "l", "a", "t", "e", "s", "/" >>
MsgTemplateRead ==
    << "E", "r", "r", "o", "r", " ", "r", "e", "a", "d", "i", "n", "g", " ", "t", "e", "m", "p", "l", "a", "t", "e", " ", "f", "i", "l", "e", ":", " ", "t", "e", "m", "p", "l", "a", "t", "e", ":", " ", "R", "E", "A", "D", "M", "E", ".", "m", "d", ".", "t", "m", "p", "l", ":", " ", "b", "a", "d", " ", "s", "y", "n", "t", "a", "x" >>
MsgTemplateExec ==
    << "E", "r", "r", "o", "r", " ", "e", "x", "e", "c", "u", "t", "i", "n", "g", " ", "t", "e", "m", "p", "l", "a", "t", "e", ":", " ", "t", "e", "m", "p", "l", "a", "t", "e", ":", " ", "R", "E", "A", "D", "M", "E", ".", "m", "d", ".", "t", "m", "p", "l", ":", " ", "b", "a", "d", " ", "f", "i", "e", "l", "d" >>
MsgWriteFailed ==
    << "E", "r", "r", "o", "r", " ", "w", "r", "i", "t", "i", "n", "g", " ", "M", "a", "r", "k", "d", "o", "w", "n", " ", "f", "i", "l", "e", ":", " " >> \o OsCause(<< "o", "p", "e", "n", " " >>, << "R", "E", "A", "D", "M", "E", ".", "m", "d" >>)
MsgSuccess     == << "D", "o", "c", "u", "m", "e", "n", "t", "a", "t", "i", "o", "n", " ", "g", "e", "n", "e", "r", "a", "t", "e", "d", " ", "s", "u", "c", "c", "e", "s", "s", "f", "u", "l", "l", "y", "!" >>

\* a loop that goes on to the next template when one fails
loopBody_SkipFailed(m, t, res) ==
    LET parsed == Append(m.parsed, t)
        more   == Len(parsed) < Len(m.templates)
    IN  IF res.err # NilError
        THEN [m EXCEPT !.parsed = parsed, !.pc = IF more THEN "parse" ELSE "resolve"]
        ELSE [m EXCEPT !.parsed = parsed,
                       !.components = Append(m.components, res.data),
                       !.pc = IF more THEN "parse" ELSE "resolve"]

\* a loop that gives up on the templates when one fails but goes on to render
loopBody_RenderAnyway(m, t, res) ==
    LET parsed == Append(m.parsed, t)
    IN  IF res.err # NilError
        THEN [m EXCEPT !.parsed = parsed, !.pc = "resolve"]
        ELSE [m EXCEPT !.parsed = parsed,
                       !.components = Append(m.components, res.data),
                       !.pc = IF Len(parsed) < Len(m.templates) THEN "parse" ELSE "resolve"]

\* body of `for _, t := range templates`: return on error, append otherwise
loopBody(m, t, res) ==
    LET parsed == Append(m.parsed, t)
    IN  IF res.err # NilError
        THEN [m EXCEPT !.parsed = parsed, !.pc = "exit"]
        ELSE [m EXCEPT !.parsed = parsed,
                       !.components = Append(m.components, res.data),
                       !.pc = IF Len(parsed) < Len(m.templates) THEN "parse" ELSE "resolve"]

MainInit ==
    /\ fs \in WorkDirs
    /\ main = [MainOff EXCEPT !.pc = "ensure", !.projectPath = << "f" >>]
    /\ stdout = <<>>
    /\ writes = <<>>
    /\ tplPath = <<>>
    /\ tplFile = FileMissing
    /\ docsDir \in DocsDirs
    /\ iterOrder = <<>>
    /\ parsePc = "idle"
    /\ parseResult = NoResult
    /\ ResolveAtRest
    /\ RemoteAtRest
    /\ BatchAtRest
    /\ FormatAtRest
    /\ LogAtRest

\* created, err := ensureTemplate("README.md.tmpl", defaultTemplate)
MainEnsureTemplate ==
    /\ main.pc = "ensure"
    /\ LET r == ensureTemplate(ReadmeTmpl, fs.tmpl, "default", fs.writable)
       IN  IF r.err # NilError
           THEN /\ stdout' = Append(stdout, r.err.msg)
                /\ main' = [main EXCEPT !.pc = "exit"]
                /\ UNCHANGED <<fs, writes>>
           ELSE /\ fs' = [fs EXCEPT !.tmpl = r.tmpl]
                /\ stdout' = IF r.created THEN Append(stdout, MsgCreated) ELSE stdout
                /\ writes' = IF r.created THEN Append(writes, "README.md.tmpl") ELSE writes
                /\ main' = [main EXCEPT !.pc = "glob"]
    /\ UNCHANGED <<parseVars, resolveVars, remoteVars, batchVars, fmtVars, logVars>>

\* filepath.Glob("templates/*.yml"), the emptiness test and sort.Strings
MainGlob ==
    /\ main.pc = "glob"
    /\ \E found \in Orders(DOMAIN fs.templates) :
          IF Len(found) = 0
          THEN /\ stdout' = Append(stdout, MsgNoTemplates)
               /\ main' = [main EXCEPT !.globbed = found, !.pc = "exit"]
          ELSE /\ stdout' = stdout
               /\ main' = [main EXCEPT !.globbed = found,
                                       !.templates = SortStrings(found),
                                       !.pc = "parse"]
    /\ UNCHANGED <<fs, writes, parseVars, resolveVars, remoteVars, batchVars, fmtVars, logVars>>

\* one iteration of the loop over templates: parseTemplate(t), then the body
MainParseTemplate ==
    /\ main.pc = "parse"
    /\ LET t == main.templates[Len(main.parsed) + 1]
       IN  \E order \in Orders(RangeKeys(fs.templates[t])) :
              LET res == parseTemplate(t, fs.templates[t], docsDir, order)
              IN  /\ main' = loopBody(main, t, res)
                  /\ stdout' = IF res.err # NilError THEN Append(stdout, res.err.msg)
                                                     ELSE stdout
    /\ UNCHANGED <<fs, writes, parseVars, resolveVars, remoteVars, batchVars, fmtVars, logVars>>

\* templateData := TemplateData{resolveProjectPath(...), resolveVersion(...), components}
MainResolve ==
    /\ main.pc = "resolve"
    /\ main' = [main EXCEPT
                  !.data = [ProjectPath |-> resolveProjectPath(main.projectPath, environ,
                                                               configFile, gitRemote),
                            Version     |-> resolveVersion(main.version, environ,
                                                           configFile, gitTag)],
                  !.pc = "parseFiles"]
    /\ UNCHANGED <<fs, stdout, writes, parseVars, resolveVars, remoteVars, batchVars, fmtVars, logVars>>

\* tmpl, err := template.ParseFiles("README.md.tmpl")
MainParseFiles ==
    /\ main.pc = "parseFiles"
    /\ IF fs.tmpl = "badsyntax"
       THEN /\ stdout' = Append(stdout, MsgTemplateRead)
            /\ main' = [main EXCEPT !.pc = "exit"]
       ELSE /\ stdout' = stdout
            /\ main' = [main EXCEPT !.pc = "execute"]
    /\ UNCHANGED <<fs, writes, parseVars, resolveVars, remoteVars, batchVars, fmtVars, logVars>>

\* err = tmpl.Execute(&doc, templateData)
MainExecute ==
    /\ main.pc = "execute"
    /\ IF fs.tmpl = "badexec"
       THEN /\ stdout' = Append(stdout, MsgTemplateExec)
            /\ main' = [main EXCEPT !.pc = "exit"]
       ELSE /\ stdout' = stdout
            /\ main' = [main EXCEPT
                          !.doc = << [tmpl |-> fs.tmpl, data |-> main.data,
                                      components |-> main.components] >>,
                          !.pc = "write"]
    /\ UNCHANGED <<fs, writes, parseVars, resolveVars, remoteVars, batchVars, fmtVars, logVars>>

\* err = os.WriteFile("README.md", doc.Bytes(), 0644)
MainWriteReadme ==
    /\ main.pc = "write"
    /\ IF ~fs.writable
       THEN /\ stdout' = Append(stdout, MsgWriteFailed)
            /\ UNCHANGED <<fs, writes>>
       ELSE /\ fs' = [fs EXCEPT !.readme = main.doc[1]]
            /\ writes' = Append(writes, "README.md")
            /\ stdout' = Append(stdout, MsgSuccess)
    /\ main' = [main EXCEPT !.pc = "exit"]
    /\ UNCHANGED <<parseVars, resolveVars, remoteVars, batchVars, fmtVars, logVars>>

MainNext ==
    \/ MainEnsureTemplate
    \/ MainGlob
    \/ MainParseTemplate
    \/ MainResolve
    \/ MainParseFiles
    \/ MainExecute
    \/ MainWriteReadme

SpecMain == MainInit /\ [][MainNext]_vars

(* main: properties *)

\* the error parseTemplate returns for template t of the working directory
ParseErr(t) == parseTemplate(t, fs.templates[t], docsDir, <<>>).err

ReadmeUntouched == fs.readme \in { "absent", "old" } /\ \A i \in 1..Len(writes) : writes[i] # "README.md"

\* C13: when parseTemplate fails for a template during a run of main, the run
\* stops at that template: it is the last one parsed, the run has returned, the
\* last line printed is the error and names the path, and README.md has not been
\* written (it keeps the state it had before the run).
C13_AbortsAtFailingTemplate ==
    \A i \in 1..Len(main.parsed) :
        ParseErr(main.parsed[i]) # NilError =>
            /\ i = Len(main.parsed)
            /\ Len(main.components) = i - 1
            /\ main.pc = "exit"
            /\ stdout # <<>>
            /\ stdout[Len(stdout)] = ParseErr(main.parsed[i]).msg
            /\ Contains(stdout[Len(stdout)], main.parsed[i])
            /\ ReadmeUntouched
            /\ main.doc = <<>>

\* the second of three templates failed after the first was parsed
C13_Witness ==
    /\ Len(main.templates) = 3
    /\ Len(main.parsed) = 2
    /\ ParseErr(main.parsed[1]) = NilError
    /\ ParseErr(main.parsed[2]) # NilError
    /\ ParseErr(main.templates[3]) = NilError
    /\ main.pc = "exit"

\* the i-th path of the working directory in ascending lexical order
PathAt(i) ==
    CHOOSE p \in DOMAIN fs.templates :
        Cardinality({ q \in DOMAIN fs.templates : StrLess(q, p) }) = i - 1

\* the record parseTemplate gives for template t (one per iteration order)
RecordsOf(t) ==
    { parseTemplate(t, fs.templates[t], docsDir, order).data :
        order \in Orders(RangeKeys(fs.templates[t])) }

\* C25: the components handed to the template are one record per discovered
\* templates/*.yml file, in ascending lexical order of the paths, whatever the
\* order in which filepath.Glob returned them.
C25_ComponentsInPathOrder ==
    main.doc # <<>> =>
        /\ Len(main.doc[1].components) = Cardinality(DOMAIN fs.templates)
        /\ \A i \in 1..Len(main.doc[1].components) :
              main.doc[1].components[i] \in RecordsOf(PathAt(i))
        /\ \A i, j \in 1..Len(main.doc[1].components) :
              i < j => StrLess(PathAt(i), PathAt(j))

\* three templates discovered in descending order and rendered
C25_Witness ==
    /\ main.doc # <<>>
    /\ Len(main.globbed) = 3
    /\ StrLess(main.globbed[3], main.globbed[2])
    /\ StrLess(main.globbed[2], main.globbed[1])
    /\ Len(main.doc[1].components) = 3
    /\ main.doc[1].components[1].Name = << "a" >>
    /\ main.doc[1].components[3].Name = << "d" >>

ReadmeWritten == \E i \in 1..Len(writes) : writes[i] = "README.md"

C27_WitnessFailed ==
    /\ main.pc = "exit"
    /\ writes = << "README.md.tmpl" >>
    /\ fs.readme = "old"
    /\ Len(main.parsed) = 2
    /\ ParseErr(main.parsed[2]) # NilError

----------------------------------------------------------------------------
(* Specification of naming: any short path, any docs/ file *)

MaxPathLen == 4

PathChars == { "/", ".", "a", "b" }

\* every path of at most MaxPathLen characters, and the two of the examples
NamePaths == TplPaths \cup UNION { [1..n -> PathChars] : n \in 0..MaxPathLen }

DocsContents ==
    { <<>>, << "h", "i" >>, << " ", "h", "i", "\n" >>, << "\n", " ", "\n" >>,
      << "a", " ", "b" >>, << "\n", "a", " ", "b", " " >> }

\* docs/ holds no file, a file os.ReadFile cannot read, or a file with a content;
\* `present` says whether os.ReadFile of the file succeeds
NameDocs ==
    { NoDocs, [present |-> FALSE, name |-> << "a" >>, content |-> << "h", "i" >>] }
    \cup [present : { TRUE }, name : { << "a" >>, << "d" >> }, content : DocsContents]

NameInit ==
    /\ tplPath \in NamePaths
    /\ tplFile \in { FileMalformed, YamlDoc(FALSE, FALSE, <<>>) }
    /\ docsDir \in NameDocs
    /\ iterOrder = <<>>
    /\ parsePc = "idle"
    /\ parseResult = NoResult
    /\ ResolveAtRest
    /\ RemoteAtRest
    /\ MainAtRest
    /\ BatchAtRest
    /\ FormatAtRest
    /\ LogAtRest

SpecName == NameInit /\ [][ParseNext]_vars

(* naming: properties *)

NoSlash(s) == \A i \in 1..Len(s) : s[i] # "/"

\* e is what follows a base name's stem: nothing when the whole base name n \o e
\* has no dot, otherwise the text from its last dot on
FinalSegment(n, e) ==
    IF e = <<>> THEN \A i \in 1..Len(n) : n[i] # "."
    ELSE e[1] = "." /\ \A i \in 2..Len(e) : e[i] # "."

\* C14: for a path that names something (trailing slashes aside), the path is
\* a directory prefix (empty or ending in a slash), then the component name,
\* then the final extension segment; name and extension hold no slash.  The
\* examples of the claim are among the paths: t/d.yml gives d, a.b.yml gives a.b.
C14_NameIsBaseWithoutFinalExtension ==
    (ParseOk /\ StripTrailingSlashes(tplPath) # <<>>) =>
        LET q    == StripTrailingSlashes(tplPath)
            name == parseResult.data.Name
        IN  /\ \E i \in 0..Len(q) :
                 LET dir == SubSeq(q, 1, i)
                     ext == SubSeq(q, i + Len(name) + 1, Len(q))
                 IN  /\ i + Len(name) <= Len(q)
                     /\ dir = <<>> \/ dir[i] = "/"
                     /\ SubSeq(q, i + 1, i + Len(name)) = name
                     /\ NoSlash(name \o ext)
                     /\ FinalSegment(name, ext)
            /\ tplPath = << "a", ".", "b", ".", "y", "m", "l" >> => name = << "a", ".", "b" >>
            /\ tplPath = << "t", "/", "d", ".", "y", "m", "l" >> => name = << "d" >>

\* a name with a dot of its own, under a directory
C14_Witness ==
    /\ ParseOk
    /\ tplPath = << "/", "a", ".", "." >>
    /\ parseResult.data.Name = << "a", "." >>

\* d is s without its leading and trailing white space
IsTrimOf(d, s) ==
    /\ \E i \in 0..Len(s) :
          /\ i + Len(d) <= Len(s)
          /\ SubSeq(s, i + 1, i + Len(d)) = d
          /\ \A j \in (1..i) \cup ((i + Len(d) + 1)..Len(s)) : IsSpace(s[j])
    /\ d # <<>> => ~IsSpace(d[1]) /\ ~IsSpace(d[Len(d)])

\* C15: extraction of a decodable document succeeds whatever docs/ holds; the
\* description is the trimmed content of the file named after the component
\* when that file can be read, and empty when it is missing or unreadable.
C15_DescriptionFromDocsByName ==
    (parsePc = "done" /\ tplFile.kind = "yaml") =>
        /\ parseResult.err = NilError
        /\ IF docsDir.present /\ docsDir.name = parseResult.data.Name
           THEN IsTrimOf(parseResult.data.Description, docsDir.content)
           ELSE parseResult.data.Description = <<>>

\* a description whose surrounding white space was removed
C15_Witness ==
    /\ ParseOk
    /\ docsDir.present
    /\ docsDir.name = parseResult.data.Name
    /\ parseResult.data.Description = << "a", " ", "b" >>
    /\ docsDir.content # parseResult.data.Description

\* an unreadable file named after the component leaves the description empty
C15_WitnessUnreadable ==
    /\ ParseOk
    /\ ~docsDir.present
    /\ docsDir.name = parseResult.data.Name
    /\ docsDir.name # <<>>

----------------------------------------------------------------------------
(* Specification of formatDefault: any value, called twice *)

MaxInt == 60

MaxListLen == 2

\* the condition of the rule in the tests, shortened: $x == "m"
RuleText == << "$", "x", " ", "=", "=", " ", "\"", "m", "\"" >>

FormatStrings == { <<>>, << "b" >>, << "a", " ", "b" >>, << "<", "b", ">" >>, RuleText }

FormatScalars ==
    { Nil, BoolV(TRUE), BoolV(FALSE) }
    \cup { StrV(t) : t \in FormatStrings }
    \cup { IntV(n) : n \in (0 - MaxInt)..MaxInt }
    \cup { FloatV(3, << "1", "4" >>), FloatV(0, << "5" >>), PosInf, NegInf, NaN }

\* what a list or a mapping may hold
Leaves == { Nil, StrV(<< "b" >>), IntV(1), PosInf }

FormatMaps ==
    { MapV(m) : m \in UNION { [S -> Leaves] : S \in SUBSET { << "a" >>, << "b" >> } } }

ListElems ==
    Leaves
    \cup { MapV(<< "a" >> :> StrV(<< "b" >>)),
           MapV(<< "b" >> :> IntV(1) @@ << "a" >> :> Nil),
           ListV(<< IntV(1) >>) }

FormatLists == { ListV(l) : l \in UNION { [1..n -> ListElems] : n \in 0..MaxListLen } }

\* the default of the `rules` input of the tests, and mappings that hold a
\* list, a mapping, and a list with a value that cannot be serialized
FormatNested ==
    { ListV(<< MapV(<< "i", "f" >> :> StrV(RuleText)) >>),
      MapV(<< "b" >> :> ListV(<< IntV(1), StrV(<< "b" >>) >>) @@ << "a" >> :> BoolV(TRUE)),
      MapV(<< "i", "f" >> :> MapV(<< "b" >> :> Nil @@ << "a" >> :> IntV(1))
           @@ << "a" >> :> FloatV(0, << "5" >>)),
      MapV(<< "b" >> :> ListV(<< NaN >>) @@ << "a" >> :> IntV(1)) }

FormatValues == FormatScalars \cup FormatMaps \cup FormatLists \cup FormatNested

FormatInit ==
    /\ fmtValue \in FormatValues
    /\ fmtOrder = <<>>
    /\ fmtPc = "idle"
    /\ fmtResult = <<>>
    /\ ParseAtRest
    /\ ResolveAtRest
    /\ RemoteAtRest
    /\ MainAtRest
    /\ BatchAtRest
    /\ LogAtRest

\* a call of formatDefault(fmtValue); the runtime picks the order of the keys
FormatDefault ==
    /\ fmtPc \in { "idle", "once" }
    /\ \E o \in Orders(KeyUniverse) :
          /\ fmtOrder' = Append(fmtOrder, o)
          /\ fmtResult' = Append(fmtResult, formatDefaultIter(fmtValue, o))
    /\ fmtPc' = IF fmtPc = "idle" THEN "once" ELSE "twice"
    /\ UNCHANGED <<fmtValue, parseVars, resolveVars, remoteVars, mainVars, batchVars, logVars>>

\* the caller drops the strings and is ready to call again
FormatReturn ==
    /\ fmtPc = "twice"
    /\ fmtPc' = "idle"
    /\ fmtOrder' = <<>>
    /\ fmtResult' = <<>>
    /\ UNCHANGED <<fmtValue, parseVars, resolveVars, remoteVars, mainVars, batchVars, logVars>>

FormatNext == FormatDefault \/ FormatReturn

SpecFormat == FormatInit /\ [][FormatNext]_vars

(* formatDefault: properties *)

Formatted == fmtResult # <<>>

IsDigit(c) == c \in { "0", "1", "2", "3", "4", "5", "6", "7", "8", "9" }

\* the number a string of decimal digits denotes
RECURSIVE DecimalValue(_)
DecimalValue(ds) ==
    IF ds = <<>> THEN 0
    ELSE 10 * DecimalValue(SubSeq(ds, 1, Len(ds) - 1)) + (Code(ds[Len(ds)]) - Code("0"))

\* r is the plain decimal numeral of n: an optional minus sign, then digits
\* only, no leading zero, denoting the magnitude of n
IsDecimalOf(r, n) ==
    LET ds == IF n < 0 THEN Tail(r) ELSE r
    IN  /\ r # <<>>
        /\ n < 0 => r[1] = "-"
        /\ ds # <<>>
        /\ \A i \in 1..Len(ds) : IsDigit(ds[i])
        /\ Len(ds) > 1 => ds[1] # "0"
        /\ DecimalValue(ds) = (IF n < 0 THEN 0 - n ELSE n)

\* C16: formatDefault gives "" for an absent value, the string itself for a
\* string, "true" or "false" for a boolean, and the plain decimal numeral for
\* an integer (42 gives "42").
C16_ScalarsToText ==
    \A i \in 1..Len(fmtResult) :
        LET r == fmtResult[i]
        IN  /\ fmtValue = Nil => r = <<>>
            /\ fmtValue.k = "str" => r = fmtValue.v
            /\ fmtValue = BoolV(TRUE) => r = << "t", "r", "u", "e" >>
            /\ fmtValue = BoolV(FALSE) => r = << "f", "a", "l", "s", "e" >>
            /\ fmtValue.k = "int" => IsDecimalOf(r, fmtValue.v)
            /\ fmtValue = IntV(42) => r = << "4", "2" >>

\* a negative integer of two digits has been converted
C16_Witness ==
    /\ Formatted
    /\ fmtValue = IntV(0 - 42)
    /\ fmtResult[1] = << "-", "4", "2" >>

IsStructured(v) == v.k \in { "list", "map" }

\* C17 as stated: every list or mapping default is displayed as its compact
\* JSON serialization between two backticks.
C17_StructuredAlwaysDelimited ==
    (Formatted /\ IsStructured(fmtValue)) =>
        \A i \in 1..Len(fmtResult) :
            /\ fmtResult[i][1] = Backtick
            /\ fmtResult[i][Len(fmtResult[i])] = Backtick
            /\ fmtResult[i] = << Backtick >> \o JsonMarshal(fmtValue, AscendingKeys) \o << Backtick >>

\* some value in v is a float that is not finite
RECURSIVE HoldsNonFinite(_)
HoldsNonFinite(v) ==
    CASE v.k = "float" -> ~v.v.finite
      [] v.k = "list"  -> \E i \in 1..Len(v.v) : HoldsNonFinite(v.v[i])
      [] v.k = "map"   -> \E key \in DOMAIN v.v : HoldsNonFinite(v.v[key])
      [] OTHER         -> FALSE

RuleDisplay == << Backtick, "[", "{", "\"", "i", "f", "\"", ":", "\"", "$", "x", " ", "=", "=", " ", "\\", "\"", "m", "\\", "\"", "\"", "}", "]", Backtick >>

\* C17 amended: a list or mapping default that holds no non-finite number is
\* displayed as its compact JSON serialization between two backticks (the rule
\* list of the tests gives the text of the tests); one that holds a non-finite
\* number is displayed by the generic conversion, without backticks.
C17_DelimitedUnlessUnserializable ==
    (Formatted /\ IsStructured(fmtValue)) =>
        \A i \in 1..Len(fmtResult) :
            LET r == fmtResult[i]
            IN  /\ ~HoldsNonFinite(fmtValue) =>
                    /\ r[1] = Backtick
                    /\ r[Len(r)] = Backtick
                    /\ r = << Backtick >> \o JsonMarshal(fmtValue, AscendingKeys) \o << Backtick >>
                    /\ r[2] = (IF fmtValue.k = "list" THEN "[" ELSE "{")
                /\ HoldsNonFinite(fmtValue) =>
                    /\ r = Sprintf(fmtValue, AscendingKeys)
                    /\ r[1] # Backtick
                /\ fmtValue = ListV(<< MapV(<< "i", "f" >> :> StrV(RuleText)) >>) =>
                    r = RuleDisplay

\* the rule list of the tests has been converted
C17_Witness ==
    /\ Formatted
    /\ fmtValue = ListV(<< MapV(<< "i", "f" >> :> StrV(RuleText)) >>)
    /\ fmtResult[1] = RuleDisplay

\* a list holding .inf has been converted
C17_WitnessUnserializable ==
    /\ Formatted
    /\ fmtValue = ListV(<< PosInf >>)
    /\ fmtResult[1] = << "[", "+", "I", "n", "f", "]" >>

\* C18: the strings formatDefault returns for one list or mapping are all the
\* same: the two calls agree, and so does a call under any order in which the
\* runtime may hand out the keys.
C18_SameStringEveryTime ==
    (Formatted /\ IsStructured(fmtValue)) =>
        /\ \A i, j \in 1..Len(fmtResult) : fmtResult[i] = fmtResult[j]
        /\ \A o \in Orders(KeyUniverse) : formatDefaultIter(fmtValue, o) = fmtResult[1]

\* a mapping of two keys converted twice, its keys handed out in opposite orders
C18_Witness ==
    /\ fmtPc = "twice"
    /\ fmtValue.k = "map"
    /\ DOMAIN fmtValue.v = { << "a" >>, << "b" >> }
    /\ RangeOrder(fmtValue.v, fmtOrder[1]) = << << "a" >>, << "b" >> >>
    /\ RangeOrder(fmtValue.v, fmtOrder[2]) = << << "b" >>, << "a" >> >>

Chars == { AsciiOrder[i] : i \in 1..Len(AsciiOrder) }

IsString(r) == \A i \in 1..Len(r) : r[i] \in Chars

\* the document whose one parameter has default v
DocWithDefault(v) ==
    YamlDoc(TRUE, TRUE,
            << "a" >> :> RawEntry(FALSE, <<>>, IF v = Nil THEN NullV ELSE v))

\* C19: formatDefault returns a string for a value of any kind, and
\* parseTemplate on a document whose parameter has that value as default
\* returns no error and a record with that parameter and that string.
C19_NormalizationIsTotal ==
    Formatted =>
        /\ \A i \in 1..Len(fmtResult) : IsString(fmtResult[i])
        /\ LET res == parseTemplate(<< "a" >>, DocWithDefault(fmtValue), NoDocs,
                                    << << "a" >> >>)
           IN  /\ res.err = NilError
               /\ Len(res.data.Inputs) = 1
               /\ res.data.Inputs[1].Default = fmtResult[1]

\* a value that only the generic conversion of composite values can display
C19_Witness ==
    /\ Formatted
    /\ fmtValue = MapV(<< "b" >> :> ListV(<< NaN >>) @@ << "a" >> :> IntV(1))
    /\ fmtResult[1] = << "m", "a", "p", "[", "a", ":", "1", " ", "b", ":", "[", "N", "a", "N", "]", "]" >>

----------------------------------------------------------------------------
(* Specification of a batch: calls of parseTemplate that overlap in time *)

NWorkers == 2

Workers == 1..NWorkers

\* the fixed file system of a batch: two documents, a file the decoder
\* rejects and a path that leads to no file
BatchFiles ==
    << "t", "/", "a", ".", "y", "m", "l" >> :> YamlDoc(TRUE, TRUE, << "a" >> :> RawEntry(TRUE, << "d" >>, StrV(<< "b" >>))
                                @@ << "b" >> :> RawEntry(FALSE, <<>>, NoKey))
    @@ << "t", "/", "b", ".", "y", "m", "l" >> :> YamlDoc(TRUE, TRUE, << "s" >> :> RawEntry(FALSE, <<>>, NoKey)
                                   @@ << "a" >> :> RawEntry(FALSE, <<>>, BoolV(FALSE)))
    @@ << "t", "/", "d", ".", "y", "m", "l" >> :> FileMalformed
    @@ << "a", ".", "b", ".", "y", "m", "l" >> :> FileMissing

BatchDocs == [present |-> TRUE, name |-> << "a" >>, content |-> << " ", "h", "i", "\n" >>]

\* the local variables of a call that has not started
IdleCall ==
    [pc |-> "idle", path |-> <<>>, config |-> [ok |-> FALSE, Inputs |-> <<>>],
     todo |-> <<>>, inputs |-> <<>>, result |-> NoResult]

\* callers that share one accumulator
Slot_Shared(w) == 1

\* `var inputs []InputData` is a local variable: each call appends to its own
Slot(w) == w

BatchInit ==
    /\ batch = [w \in Workers |-> IdleCall]
    /\ ParseAtRest
    /\ ResolveAtRest
    /\ RemoteAtRest
    /\ MainAtRest
    /\ FormatAtRest
    /\ LogAtRest

BatchRest == <<parseVars, resolveVars, remoteVars, mainVars, fmtVars, logVars>>

\* worker w calls parseTemplate(path)
BatchCall(w) ==
    /\ batch[w].pc = "idle"
    /\ \E path \in DOMAIN BatchFiles :
          batch' = [batch EXCEPT ![w].pc = "read", ![w].path = path]
    /\ UNCHANGED BatchRest

\* yamlFile, err := os.ReadFile(path)
BatchReadFile(w) ==
    /\ batch[w].pc = "read"
    /\ LET path == batch[w].path
       IN  IF BatchFiles[path].kind = "missing"
           THEN batch' = [batch EXCEPT
                            ![w].pc = "done",
                            ![w].result =
                                [data |-> ZeroComponentData,
                                 err  |-> [kind |-> "read",
                                           msg |-> ReadErrorf(path, ReadFileCause(path))]]]
           ELSE batch' = [batch EXCEPT ![w].pc = "unmarshal"]
    /\ UNCHANGED BatchRest

\* err = yaml.Unmarshal(yamlFile, &config); var inputs []InputData; the runtime
\* picks the order of the range
BatchUnmarshal(w) ==
    /\ batch[w].pc = "unmarshal"
    /\ LET path   == batch[w].path
           config == Unmarshal(BatchFiles[path])
       IN  IF ~config.ok
           THEN batch' = [batch EXCEPT
                            ![w].pc = "done",
                            ![w].result =
                                [data |-> ZeroComponentData,
                                 err  |-> [kind |-> "parse",
                                           msg |-> ParseErrorf(path, UnmarshalCause)]]]
           ELSE \E order \in Orders(DOMAIN config.Inputs) :
                   LET started == [batch EXCEPT ![w].pc = "range", ![w].config = config,
                                                ![w].todo = order]
                   IN  batch' = [started EXCEPT ![Slot(w)].inputs = <<>>]
    /\ UNCHANGED BatchRest

\* one iteration of the range: inputs = append(inputs, InputData{...})
BatchAppend(w) ==
    /\ batch[w].pc = "range"
    /\ batch[w].todo # <<>>
    /\ LET name  == Head(batch[w].todo)
           item  == NewInputData(name, batch[w].config.Inputs[name])
           moved == [batch EXCEPT ![w].todo = Tail(batch[w].todo)]
       IN  batch' = [moved EXCEPT ![Slot(w)].inputs = Append(moved[Slot(w)].inputs, item)]
    /\ UNCHANGED BatchRest

\* sort.Slice, the name, the description and the return
BatchFinish(w) ==
    /\ batch[w].pc = "range"
    /\ batch[w].todo = <<>>
    /\ LET name == ComponentName(batch[w].path)
       IN  batch' = [batch EXCEPT
                       ![w].pc = "done",
                       ![w].result =
                           [data |-> [Name        |-> name,
                                      Description |-> loadComponentDescription(name, BatchDocs),
                                      Inputs      |-> SortSlice(batch[Slot(w)].inputs)],
                            err  |-> NilError]]
    /\ UNCHANGED BatchRest

\* the caller takes the record; the worker is free for the next path
BatchReturn(w) ==
    /\ batch[w].pc = "done"
    /\ batch' = [batch EXCEPT ![w] = IdleCall]
    /\ UNCHANGED BatchRest

BatchNext ==
    \E w \in Workers :
        \/ BatchCall(w)
        \/ BatchReadFile(w)
        \/ BatchUnmarshal(w)
        \/ BatchAppend(w)
        \/ BatchFinish(w)
        \/ BatchReturn(w)

SpecBatch == BatchInit /\ [][BatchNext]_vars

(* batch: properties *)

\* what parseTemplate returns for the path when it is the only call made
Solitary(path) ==
    parseTemplate(path, BatchFiles[path], BatchDocs, SortedKeys(RangeKeys(BatchFiles[path])))

\* C20: the record a call of parseTemplate returns for a path is the record
\* the call returns when made alone, whatever the other workers have done
\* before it and are doing at the same time.
C20_ExtractionIsIndependent ==
    \A w \in Workers :
        batch[w].pc = "done" => batch[w].result = Solitary(batch[w].path)

\* a call has returned a record of two parameters while another call, on
\* another document, is in the middle of its range
C20_Witness ==
    \E w, u \in Workers :
        /\ w # u
        /\ batch[w].pc = "done"
        /\ Len(batch[w].result.data.Inputs) = 2
        /\ batch[u].pc = "range"
        /\ batch[u].path # batch[w].path
        /\ Len(batch[u].inputs) = 1
        /\ Len(batch[u].todo) = 1

----------------------------------------------------------------------------
(* Specification of repeated resolution: calls with source changes between *)

MaxCalls == 2

CallsConfigs == { ConfigMissing, [kind |-> "yaml", project_path |-> << "c" >>, version |-> << "c" >>] }

\* a resolver that answers from its first call with the same argument
Invoke_Memoized(log, fn, flagValue) ==
    LET same == { i \in 1..Len(log) : log[i].fn = fn /\ log[i].flag = flagValue }
    IN  IF same # {} THEN log[CHOOSE i \in same : \A j \in same : i <= j].result
        ELSE IF fn = "resolveProjectPath"
        THEN resolveProjectPath(flagValue, environ, configFile, gitRemote)
        ELSE resolveVersion(flagValue, environ, configFile, gitTag)

\* a call runs the body of the function on the sources as they are now; the
\* functions declare no variable that outlives the call
Invoke(log, fn, flagValue) ==
    IF fn = "resolveProjectPath"
    THEN resolveProjectPath(flagValue, environ, configFile, gitRemote)
    ELSE resolveVersion(flagValue, environ, configFile, gitTag)

CallsInit ==
    /\ environ \in Environs
    /\ configFile \in CallsConfigs
    /\ gitRemote = Cmd(TRUE, << "g", "@", "h", ":", "g", "/", "p", ".", "g", "i", "t", "\n" >>)
    /\ gitTag = Cmd(TRUE, << "v", "1", ".", "2", "\n" >>)
    /\ resolvePc = "idle"
    /\ resolveCall = NoCall
    /\ resolveLog = <<>>
    /\ ensureLog = <<>>
    /\ ParseAtRest
    /\ RemoteAtRest
    /\ MainAtRest
    /\ BatchAtRest
    /\ FormatAtRest

\* a call of resolveProjectPath or resolveVersion, logged with the sources it met
CallResolver ==
    /\ Len(resolveLog) < MaxCalls
    /\ \E fn \in { "resolveProjectPath", "resolveVersion" }, flagValue \in FlagValues :
          resolveLog' = Append(resolveLog,
                               [fn |-> fn, flag |-> flagValue, environ |-> environ,
                                configFile |-> configFile,
                                result |-> Invoke(resolveLog, fn, flagValue)])
    /\ UNCHANGED <<environ, configFile, gitRemote, gitTag, resolvePc, resolveCall, ensureLog,
                   parseVars, remoteVars, mainVars, batchVars, fmtVars>>

CallsNext == Setenv \/ WriteConfigAmong(CallsConfigs) \/ CallResolver

SpecCalls == CallsInit /\ [][CallsNext]_vars

(* repeated resolution: properties *)

\* what a logged call should return, from the sources logged with it
Expected(call) ==
    IF call.fn = "resolveProjectPath"
    THEN FirstNonEmpty(<< call.flag, call.environ.PROJECT_PATH,
                          readConfigProjectPath(call.configFile),
                          detectGitProjectPath(gitRemote), PlaceholderProjectPath >>)
    ELSE FirstNonEmpty(<< call.flag, call.environ.VERSION,
                          readConfigVersion(call.configFile),
                          detectGitVersion(gitTag), PlaceholderVersion >>)

\* C21: the result of every call is the one its argument and the sources of
\* that moment give; two calls of the same function with the same argument
\* that met the same sources returned the same string, whatever was called
\* or changed in between.
C21_NoStateBetweenCalls ==
    /\ \A i \in 1..Len(resolveLog) : resolveLog[i].result = Expected(resolveLog[i])
    /\ \A i, j \in 1..Len(resolveLog) :
          ( /\ resolveLog[i].fn = resolveLog[j].fn
            /\ resolveLog[i].flag = resolveLog[j].flag
            /\ resolveLog[i].environ = resolveLog[j].environ
            /\ resolveLog[i].configFile = resolveLog[j].configFile )
          => resolveLog[i].result = resolveLog[j].result

\* VERSION was set for the first call and unset before the second
C21_Witness ==
    /\ Len(resolveLog) = 2
    /\ \A i \in 1..2 : resolveLog[i].fn = "resolveVersion" /\ resolveLog[i].flag = <<>>
    /\ resolveLog[1].environ.VERSION = << "e" >>
    /\ resolveLog[1].result = << "e" >>
    /\ resolveLog[2].environ.VERSION = <<>>
    /\ resolveLog[2].result # << "e" >>

----------------------------------------------------------------------------
(* Further properties of the resolver *)

C26_TagTextIsKept ==
    ( /\ Resolved
      /\ ~IsProjectPathCall
      /\ resolveCall.flag = <<>>
      /\ EnvSource = <<>>
      /\ ConfigSource = <<>>
      /\ gitTag.ok
      /\ \E i \in 1..Len(gitTag.out) : ~IsSpace(gitTag.out[i]) )
    => /\ IsTrimOf(resolveCall.result, gitTag.out)
       /\ resolveCall.result # <<>>
       /\ gitTag.out = << "v", "1", ".", "2", ".", "3", "\n" >>
             => resolveCall.result = << "v", "1", ".", "2", ".", "3" >>

\* the tag v1.2.3 was the source of the version
C26_Witness ==
    /\ Resolved
    /\ ~IsProjectPathCall
    /\ resolveCall.flag = <<>>
    /\ EnvSource = <<>>
    /\ ConfigSource = <<>>
    /\ gitTag = Cmd(TRUE, << "v", "1", ".", "2", ".", "3", "\n" >>)
    /\ resolveCall.result = << "v", "1", ".", "2", ".", "3" >>

IsPrefixOf(a, b) == Len(a) <= Len(b) /\ SubSeq(b, 1, Len(a)) = a

Made(call) == \E i \in 1..Len(resolveCall.reads) : resolveCall.reads[i] = call

\* C28: the calls a resolution makes are a beginning of: read the environment
\* variable, read the config file, run git.  With a non-empty argument none is
\* made; with a non-empty environment variable the config file is not read and
\* git is not run; with a config file that yields a value git is not run; and
\* each source is reached when everything before it yielded nothing.
C28_SourcesInOrderUntilFirstValue ==
    Resolved =>
        /\ IsPrefixOf(resolveCall.reads, << "os.Getenv", "os.ReadFile", "exec.Command" >>)
        /\ resolveCall.flag # <<>> => resolveCall.reads = <<>>
        /\ (resolveCall.flag # <<>> \/ EnvSource # <<>>) =>
              ~Made("os.ReadFile") /\ ~Made("exec.Command")
        /\ ConfigSource # <<>> => ~Made("exec.Command")
        /\ resolveCall.flag = <<>> => Made("os.Getenv")
        /\ (resolveCall.flag = <<>> /\ EnvSource = <<>>) => Made("os.ReadFile")
        /\ (resolveCall.flag = <<>> /\ EnvSource = <<>> /\ ConfigSource = <<>>) =>
              Made("exec.Command")

\* VERSION is set while the config file and git could both give a value
C28_Witness ==
    /\ Resolved
    /\ ~IsProjectPathCall
    /\ resolveCall.flag = <<>>
    /\ environ.VERSION = << "e" >>
    /\ ConfigSource # <<>>
    /\ GitSource # <<>>
    /\ resolveCall.reads = << "os.Getenv" >>

----------------------------------------------------------------------------
(* Specification of ensureTemplate: calls in a row on one path *)

MaxEnsures == 3

\* contents a caller may supply as the default
DefaultContents == { "default", "other", "empty" }

EnsureInit ==
    /\ fs \in [tmpl : { "absent", "staterr", "custom" }, templates : { <<>> },
               readme : { "absent" }, writable : BOOLEAN]
    /\ main = MainOff
    /\ stdout = <<>>
    /\ writes = <<>>
    /\ ensureLog = <<>>
    /\ resolveLog = <<>>
    /\ ParseAtRest
    /\ ResolveAtRest
    /\ RemoteAtRest
    /\ BatchAtRest
    /\ FormatAtRest

\* a call of ensureTemplate(path, defaultContent), logged with the state of
\* the file before and after it
EnsureTemplate ==
    /\ Len(ensureLog) < MaxEnsures
    /\ \E defaultContent \in DefaultContents :
          LET r == ensureTemplate(ReadmeTmpl, fs.tmpl, defaultContent, fs.writable)
          IN  /\ fs' = [fs EXCEPT !.tmpl = r.tmpl]
              /\ writes' = IF r.created THEN Append(writes, "README.md.tmpl") ELSE writes
              /\ ensureLog' = Append(ensureLog,
                                     [default |-> defaultContent, before |-> fs.tmpl,
                                      after |-> r.tmpl, created |-> r.created, err |-> r.err])
    /\ UNCHANGED <<main, stdout, resolveLog, parseVars, resolveVars, remoteVars, batchVars,
                   fmtVars>>

EnsureNext == EnsureTemplate

SpecEnsure == EnsureInit /\ [][EnsureNext]_vars

(* ensureTemplate: properties *)

IsContent(t) == t \notin { "absent", "staterr" }

\* C24: a call that finds a file returns created = false and no error and
\* leaves the content as it is; through a sequence of calls each call finds
\* what the previous one left, the content of the file stays the one it had
\* when it first existed, and no call but the first returns created = true.
C24_NeverOverwrites ==
    /\ \A i \in 1..Len(ensureLog) :
          /\ IsContent(ensureLog[i].before) =>
                /\ ~ensureLog[i].created
                /\ ensureLog[i].err = NilError
                /\ ensureLog[i].after = ensureLog[i].before
          /\ i > 1 => ~ensureLog[i].created
          /\ i > 1 => ensureLog[i].before = ensureLog[i - 1].after
    /\ \A i \in 1..Len(ensureLog) :
          IsContent(ensureLog[i].after) => fs.tmpl = ensureLog[i].after
    /\ Len(writes) <= 1

\* three calls with three defaults: the file keeps what the first one wrote
C24_Witness ==
    /\ Len(ensureLog) = 3
    /\ ensureLog[1].created
    /\ ensureLog[1].default = "other"
    /\ ensureLog[2].default = "default"
    /\ ensureLog[3].default = "empty"
    /\ fs.tmpl = "other"

----------------------------------------------------------------------------
(* Further properties of the address reduction *)

\* positions of character c in text t
Positions(t, c) == { i \in 1..Len(t) : t[i] = c }

\* positions where a doubled slash starts
DoubledSlashes(t) == { i \in 1..(Len(t) - 1) : t[i] = "/" /\ t[i + 1] = "/" }

Least(S) == CHOOSE i \in S : \A j \in S : i <= j

From(t, i) == SubSeq(t, i, Len(t))

\* text s without one trailing ".git"
WithoutDotGit(s) ==
    IF Len(s) >= 4 /\ From(s, Len(s) - 3) = << ".", "g", "i", "t" >>
    THEN SubSeq(s, 1, Len(s) - 4)
    ELSE s

\* what the URL rule alone gives for text t
UrlRuleOf(t) ==
    IF DoubledSlashes(t) = {} THEN <<>>
    ELSE LET rest    == From(t, Least(DoubledSlashes(t)) + 2)
         IN  IF Positions(rest, "/") = {} THEN <<>>
             ELSE WithoutDotGit(From(rest, Least(Positions(rest, "/")) + 1))

\* C29: for every address that holds both ':' and '@', a doubled slash or not,
\* the result is the text after the first ':' without one trailing ".git"; the
\* URL rule (the text after the first '/' that follows the first "//") decides
\* only for addresses that lack ':' or lack '@'.
C29_SshRuleFirst ==
    remotePc = "done" =>
        LET t == RemoteText(remote)
        IN  IF Positions(t, ":") # {} /\ Positions(t, "@") # {}
            THEN remoteResult = WithoutDotGit(From(t, Least(Positions(t, ":")) + 1))
            ELSE remoteResult = UrlRuleOf(t)

\* an address https://user@host/path, which both rules match with different
\* results: the secure-shell rule decided
C29_Witness ==
    /\ remotePc = "done"
    /\ remote.form = "url"
    /\ remote.user # <<>>
    /\ remote.port = <<>>
    /\ remote.path = << "g", "/", "p", ".", "g", "i", "t" >>
    /\ UrlRuleOf(RemoteText(remote)) = << "g", "/", "p" >>
    /\ remoteResult = << "/", "/" >> \o remote.user \o << "@" >> \o remote.host \o << "/", "g", "/", "p" >>

----------------------------------------------------------------------------
(* Further properties of the parser *)

\* the document with every `default: null` line taken out
NullsDropped(file) ==
    [file EXCEPT !.inputs =
        [n \in DOMAIN file.inputs |->
            IF file.inputs[n].def = NullV
            THEN [file.inputs[n] EXCEPT !.def = NoKey]
            ELSE file.inputs[n]]]

\* C30: a parameter whose default key is present with a null value is treated
\* as one with no default key: both are returned with Required = true and
\* Default = "", both precede every optional parameter, and the record
\* returned is the one returned for the document without the null lines.
C30_NullDefaultIsNoDefault ==
    ParseOk =>
        /\ \A i \in DOMAIN Params :
              RawOf(Params[i]).def \in { NoKey, NullV } =>
                 /\ Params[i].Required
                 /\ Params[i].Default = <<>>
                 /\ \A j \in DOMAIN Params : ~Params[j].Required => i < j
        /\ parseResult = parseTemplate(tplPath, NullsDropped(tplFile), docsDir, iterOrder)

\* a null default, a missing default and an optional parameter, in this order
C30_Witness ==
    /\ ParseOk
    /\ Len(Params) = 3
    /\ RawOf(Params[1]).def = NullV
    /\ RawOf(Params[2]).def = NoKey
    /\ Params[1].Required /\ Params[2].Required
    /\ ~Params[3].Required

====
